---- MODULE Spec2Model ----
(***************************************************************************)
(* State-machine model of the dashboard data layer of tuikit.dev:          *)
(*   - useGitHubStats       (the fetcher, src/unnamed/part_005)            *)
(*   - useGitHubStatsCache  (the caching facade and its refresh timers,    *)
(*                           src/src/hooks/useGitHubStatsCache.ts)         *)
(* Time is in milliseconds.  One action is one task of the browser's event *)
(* loop: the effects of a mount, a timer callback, a click, the arrival of *)
(* a network response with the promise continuations that follow it, or    *)
(* the continuation of a fetch whose signal was aborted.  The latter runs  *)
(* from the microtask queue, so it runs before any other task.             *)
(***************************************************************************)
EXTENDS Integers, Naturals, FiniteSets, Sequences, TLC

(***************************************************************************)
(* Program constants                                                       *)
(***************************************************************************)
REFRESH_INTERVAL_MS == 300000

FORCE_REFRESH_COOLDOWN_MS == 60000

(***************************************************************************)
(* Bounds of the model                                                     *)
(***************************************************************************)
\* Date.now() at the time the hook is mounted.
StartTime == 400000

\* The clock stops advancing here.
MaxTime == 720000

\* The largest step by which the clock advances between two events.
TickMs == 160000

\* The number of doFetch() calls a behaviour may hold.
MaxFetches == 2

\* Ages (ms) of the cache entry found at mount.
CacheAges ==
  {FORCE_REFRESH_COOLDOWN_MS, 120000, REFRESH_INTERVAL_MS - 1,
   REFRESH_INTERVAL_MS}

(***************************************************************************)
(* Values                                                                  *)
(***************************************************************************)
\* null for lastFetchedAt / nextRefreshAt (number | null)
NoTime == -1

\* null for controllerRef.current, intervalRef.current and timer handles
NoId == 0

\* Snapshots are named by where their data comes from: EmptyData is the
\* content of initialStats, CachedData the snapshot stored before this
\* session started, and f \in FetchIds the snapshot assembled by fetch f.
EmptyData == 0

CachedData == -1

FetchIds == 1..MaxFetches

\* error: string | null.  The string is abstracted to the request that failed.
NoError == "none"

\* Outcome of one HTTP request: 2xx, a non-2xx status, or a rejected fetch().
Outcomes == {"ok", "http", "net"}

\* const initialStats: GitHubStats = { ..., loading: true, error: null }
initialStats == [data |-> EmptyData, loading |-> TRUE, error |-> NoError]

\* useState<GitHubStats | null>(null)
NoOverride == [set |-> FALSE, data |-> EmptyData, loading |-> TRUE, error |-> NoError]

\* The localStorage slot 'tuikit-dashboard-cache'.
NoEntry == [kind |-> "absent", data |-> EmptyData, fetchedAt |-> NoTime]

CorruptEntry == [kind |-> "corrupt", data |-> EmptyData, fetchedAt |-> NoTime]

ValidEntry(d, t) == [kind |-> "valid", data |-> d, fetchedAt |-> t]

\* A doFetch() call that has not been made yet.
NoFetch ==
  [stage |-> "none", origin |-> "none", issuedAt |-> NoTime, aborted |-> FALSE,
   settledAborted |-> FALSE, primary |-> "pending", cause |-> NoError]

InFlightStages == {"fanout", "commitCount", "mergedPRs", "social"}

VARIABLES
  now,            \* Date.now()
  phase,          \* "init" (before the effects ran), "mounted", "unmounted"
  cache,          \* localStorage['tuikit-dashboard-cache']
  stats,          \* useGitHubStats: const [stats, setStats]
  controllerRef,  \* useGitHubStats: controllerRef.current (a fetch id)
  fetches,        \* every doFetch() call: its position and its signal
  nIssued,        \* number of doFetch() calls made
  overrideStats,  \* useGitHubStatsCache state
  lastFetchedAt,
  nextRefreshAt,
  isFromCache,
  isRefreshing,
  intervalRef,    \* intervalRef.current (a timer id)
  timeoutId,      \* the one-shot timer of the auto-refresh effect
  timers,         \* live timers: id -> [kind, due]
  nTimers,        \* number of timers created
  mountedAt,      \* history: Date.now() when the effects ran
  cacheAtMount,   \* history: what readCache() returned to the mount effect
  refused,        \* history: a forceRefresh() call has returned at the
                  \* cooldown check
  applied,        \* history: fetches whose result doFetchAndCache adopted
  cacheWriters,   \* history: fetches whose result was passed to writeCache
  preState,       \* history: what was exposed and stored when a fetch that
                  \* is still in flight started
  \* The localStorage helpers called on their own (StoreSpec):
  store,          \* localStorage['tuikit-dashboard-cache'], as stored text
  storeMode,      \* whether localStorage works, is full, or is disabled
  storeNow,       \* Date.now()
  storeLog,       \* the calls made so far, latest last (at most StoreLogLen)
  \* One doFetch() call of useGitHubStats, request by request (FetcherSpec):
  responses,      \* request -> "unsent", "pending", or its answer
  silent,         \* the requests that never answer
  position,       \* where doFetch() is: the await it is at, or how it ended
  activityResult, \* what the weekly-activity function resolved to
  stargazersResult, \* stargazersResult.data: the logins, in order
  result,         \* the GitHubStats object doFetch() resolved to
  \* The helpers of useGitHubStats called on their own (HelperSpec):
  helper,         \* the function called
  argResponse,    \* the argument of ghCount / extractLastPage
  argMessage,     \* the argument of splitCommitMessage
  retCount,       \* the number returned
  retSplit,       \* the { title, body } returned
  returned,       \* whether the call has returned
  \* The other hooks, each with its surroundings:
  versionHook,    \* useTUIkitVersion: its state, ref and render closure
  versionEnv,     \* the clock, localStorage and requests of useTUIkitVersion
  plans,          \* usePlansCache (PlansSpec)
  clipboard       \* useCopyToClipboard (ClipboardSpec)

hookVars ==
  <<now, phase, cache, stats, controllerRef, fetches, nIssued, overrideStats,
    lastFetchedAt, nextRefreshAt, isFromCache, isRefreshing, intervalRef,
    timeoutId, timers, nTimers, mountedAt, cacheAtMount, refused, applied,
    cacheWriters, preState>>

storeVars == <<store, storeMode, storeNow, storeLog>>

\* The variables of the machines that exercise one function on its own.
fetcherVars ==
  <<responses, silent, position, activityResult, stargazersResult, result>>

helperVars ==
  <<helper, argResponse, argMessage, retCount, retSplit, returned>>

versionVars == <<versionHook, versionEnv>>

otherHooks == <<versionVars, plans, clipboard>>

auxVars == <<storeVars, fetcherVars, helperVars, otherHooks>>

\* What the storage machine leaves alone.
restOfStore == <<hookVars, fetcherVars, helperVars, otherHooks>>

vars == <<hookVars, auxVars>>

facadeVars == <<overrideStats, lastFetchedAt, nextRefreshAt, isFromCache>>

timerVars == <<intervalRef, timeoutId, timers, nTimers>>

historyVars == <<mountedAt, cacheAtMount, refused>>

TimerIds == 1..(MaxFetches + 1)

NoTimer == [kind |-> "none", due |-> NoTime, live |-> FALSE]

NoPre ==
  [data |-> EmptyData, lastFetchedAt |-> NoTime, nextRefreshAt |-> NoTime,
   isFromCache |-> FALSE, cache |-> NoEntry]

Max(a, b) == IF a >= b THEN a ELSE b

Min(a, b) == IF a <= b THEN a ELSE b

(***************************************************************************)
(* localStorage helpers                                                    *)
(***************************************************************************)
\* readCache(): the value returned (null is NoEntry).
ReadCache(c) == IF c.kind = "valid" THEN c ELSE NoEntry

\* readCache(): the stored value afterwards (a corrupt record is removed).
CacheAfterRead(c) == IF c.kind = "corrupt" THEN NoEntry ELSE c

\* A plausible slip: the entry is never stored.
WriteCacheDropped(c, d, t, storageOk) == c

\* writeCache(data): the stored value afterwards; setItem may throw.
WriteCache(c, d, t, storageOk) == IF storageOk THEN ValidEntry(d, t) ELSE c

(***************************************************************************)
(* localStorage helpers, statement by statement                            *)
(***************************************************************************)
\* The number of calls the log of the storage machine keeps.
StoreLogLen == 2

\* localStorage: working, full (setItem throws), or disabled (every access
\* throws).
StoreModes == {"ok", "full", "disabled"}

\* Stored texts that are not a cache entry: the empty string; text that
\* JSON.parse rejects; JSON for a falsy value (null, 0, false); an object
\* whose fetchedAt is not a number; an object without data.
InvalidKinds == {"empty", "garbage", "falsy", "noFetchedAt", "noData"}

InvalidText(k) == [kind |-> k, data |-> EmptyData, fetchedAt |-> NoTime]

\* localStorage.getItem(CACHE_KEY)
GetItem(s, mode) ==
  IF mode = "disabled" THEN [threw |-> TRUE, raw |-> NoEntry]
                       ELSE [threw |-> FALSE, raw |-> s]

\* localStorage.removeItem(CACHE_KEY)
RemoveItem(s, mode) ==
  IF mode = "disabled" THEN [threw |-> TRUE, store |-> s]
                       ELSE [threw |-> FALSE, store |-> NoEntry]

\* localStorage.setItem(CACHE_KEY, text)
SetItem(s, mode, text) ==
  IF mode = "ok" THEN [threw |-> FALSE, store |-> text]
                 ELSE [threw |-> TRUE, store |-> s]

\* A plausible slip: the entry is handed out once and removed.
readCacheConsuming(s, mode) ==
  IF mode = "disabled"
    THEN [result |-> NoEntry, store |-> s, threw |-> FALSE]
    ELSE [result |-> IF s.kind = "valid" THEN s ELSE NoEntry,
          store |-> IF s.kind = "empty" THEN s ELSE NoEntry, threw |-> FALSE]

\* function readCache(): what it returns, what is stored afterwards, and
\* whether an exception leaves it.
readCache(s, mode) ==
  LET get == GetItem(s, mode)
      rm == RemoveItem(s, mode)
      \* catch { try { removeItem } catch { /* ignore */ } return null }
      caught == [result |-> NoEntry, store |-> rm.store, threw |-> FALSE]
  IN IF get.threw THEN caught
     \* if (!raw) return null
     ELSE IF get.raw.kind \in {"absent", "empty"}
       THEN [result |-> NoEntry, store |-> s, threw |-> FALSE]
     \* JSON.parse(raw) throws
     ELSE IF get.raw.kind = "garbage" THEN caught
     \* if (!parsed || typeof parsed.fetchedAt !== "number" || !parsed.data)
     ELSE IF get.raw.kind \in {"falsy", "noFetchedAt", "noData"}
       THEN IF rm.threw THEN caught
            ELSE [result |-> NoEntry, store |-> rm.store, threw |-> FALSE]
     ELSE [result |-> get.raw, store |-> s, threw |-> FALSE]

\* function writeCache(data): the timestamp it returns, what is stored
\* afterwards, and whether an exception leaves it.
writeCache(s, mode, d, t) ==
  LET set == SetItem(s, mode, ValidEntry(d, t))
  IN [result |-> t, store |-> set.store, threw |-> FALSE]

(***************************************************************************)
(* useGitHubStats.doFetch, request by request                              *)
(***************************************************************************)
\* The requests of one doFetch() call.  "counts" stands for the seven
\* ghCount() calls of the Promise.all, which are handled alike.
ParallelRequests ==
  {"repo", "commits", "languages", "activity", "counts", "stargazers"}

Requests ==
  ParallelRequests \cup {"activityCache", "commitCount", "mergedPRs", "social"}

\* What a request can answer.  The live weekly-activity endpoint answers 2xx
\* with a non-empty array, an empty array or (202) an object; the two static
\* files answer 2xx with the expected JSON, with other JSON or with text
\* that is not JSON.
Answers(r) ==
  IF r = "activity" THEN {"series", "emptyArray", "nonArray", "http", "net"}
  ELSE IF r = "activityCache"
    THEN {"series", "nonArray", "badJson", "http", "net"}
  ELSE IF r = "social" THEN {"table", "badJson", "http", "net"}
  ELSE IF r = "commitCount" THEN {"paged", "single", "empty", "http", "net"}
  ELSE Outcomes

\* The static files, the lookups that supply fallback data only.
StaticLookups == {"activityCache", "social"}

\* The values of activityResult.data.
LiveSeries == "live"

StaticSeries == "static"

StaticObject == "staticObject"

EmptySeries == "empty"

NoActivity == [data |-> "pending", rate |-> "pending"]

\* cacheResp.ok and cacheResp.json() resolves: return { data: cached, ... }
CacheLoads(a) == a \in {"series", "nonArray"}

CachedActivity(a) == IF a = "series" THEN StaticSeries ELSE StaticObject

\* The weekly-activity function with the static file left out of the catch
\* branch.
ActivityResultLiveOnly(live, static) ==
  IF live \in {"series", "emptyArray", "nonArray"}
  THEN IF live = "series" THEN [data |-> LiveSeries, rate |-> "live"]
       ELSE IF CacheLoads(static)
         THEN [data |-> CachedActivity(static), rate |-> "live"]
       ELSE [data |-> EmptySeries, rate |-> "live"]
  ELSE [data |-> EmptySeries, rate |-> "default"]

\* The value the weekly-activity async function resolves to, from the answer
\* of the live endpoint and (if it was asked) of the static file.
ActivityResult(live, static) ==
  IF live \in {"series", "emptyArray", "nonArray"}
  THEN IF live = "series" THEN [data |-> LiveSeries, rate |-> "live"]
       ELSE IF CacheLoads(static)
         THEN [data |-> CachedActivity(static), rate |-> "live"]
       ELSE [data |-> EmptySeries, rate |-> "live"]
  ELSE IF CacheLoads(static)
         THEN [data |-> CachedActivity(static), rate |-> "default"]
       ELSE [data |-> EmptySeries, rate |-> "default"]

\* weeklyActivity: Array.isArray(activityResult.data) ? ... : []
WeeklyActivity(data) == IF data = StaticObject THEN EmptySeries ELSE data

\* let socialCache = { generatedAt: null, entries: {} }, replaced when the
\* file loads.
\* Every parallel request has resolved: the Promise.all resolves.
FanoutResolved(resp, act) ==
  /\ \A r \in {"repo", "commits", "languages"} : resp[r] = "ok"
  /\ resp["counts"] \in {"ok", "http"}
  /\ resp["stargazers"] \in Outcomes
  /\ act # NoActivity

(***************************************************************************)
(* The helpers of useGitHubStats                                           *)
(***************************************************************************)
\* `${API}${path}?per_page=1`
PerPage == 1

\* The largest page number a Link header names.
MaxPage == 3

\* The longest commit message.
MaxMsgLen == 6

Rels == {"next", "last", "prev", "first"}

\* One link of a Link header, <...&per_page=1&page=N>; rel="R".
LinkEntries == [page : 1..MaxPage, rel : Rels]

\* response.headers.get("link"): null, or up to two links of different rel.
NoLink == <<>>

Links ==
  {NoLink} \cup {<<e>> : e \in LinkEntries} \cup
  {l \in LinkEntries \X LinkEntries : l[1].rel # l[2].rel}

\* The body of a response: a JSON array of at most per_page items, or JSON
\* that is not an array.
Bodies ==
  {[isArray |-> FALSE, length |-> 0]} \cup
  {[isArray |-> TRUE, length |-> n] : n \in 0..PerPage}

Responses == [ok : BOOLEAN, link : Links, body : Bodies]

NoResponse ==
  [ok |-> FALSE, link |-> NoLink, body |-> [isArray |-> FALSE, length |-> 0]]

\* link.match(/page=(\d+)>; rel="last"/): the leftmost match.
LastLinks(link) == {i \in 1..Len(link) : link[i].rel = "last"}

extractLastPage(response) ==
  LET link == response.link IN
    IF link = NoLink THEN 0
    ELSE IF LastLinks(link) = {} THEN 0
    ELSE link[CHOOSE i \in LastLinks(link) :
                \A j \in LastLinks(link) : i <= j].page

\* ghCount without the fallback to the items of the body.
ghCountHeaderOnly(response) ==
  IF ~response.ok THEN 0 ELSE extractLastPage(response)

ghCount(response) ==
  IF ~response.ok THEN 0
  ELSE LET lastPage == extractLastPage(response) IN
    IF lastPage > 0 THEN lastPage
    ELSE IF response.body.isArray THEN response.body.length ELSE 0

NoCount == -1

\* Commit messages are strings over two letters and the newline.
NL == "\n"

Chars == {"a", "b", NL}

Messages == UNION {[1..n -> Chars] : n \in 0..MaxMsgLen}

\* fullMessage.indexOf("\n"), counted from 1; NotFound is JavaScript's -1.
NotFound == 0

IndexOf(s, c) ==
  IF \E i \in 1..Len(s) : s[i] = c
  THEN CHOOSE i \in 1..Len(s) : s[i] = c /\ \A j \in 1..(i - 1) : s[j] # c
  ELSE NotFound

\* .replace(/^\n/, ""): one newline removed.
StripOneNewline(s) == IF s # <<>> /\ Head(s) = NL THEN Tail(s) ELSE s

\* .replace(/^\n+/, "")
RECURSIVE StripLeadingNewlines(_)
StripLeadingNewlines(s) ==
  IF s # <<>> /\ Head(s) = NL THEN StripLeadingNewlines(Tail(s)) ELSE s

\* body: string | null
Null == [isNull |-> TRUE, text |-> <<>>]

Text(s) == [isNull |-> FALSE, text |-> s]

NoSplit == [title |-> <<>>, body |-> Null]

splitCommitMessage(fullMessage) ==
  LET firstNewline == IndexOf(fullMessage, NL) IN
    IF firstNewline = NotFound THEN [title |-> fullMessage, body |-> Null]
    ELSE LET title == SubSeq(fullMessage, 1, firstNewline - 1)
             rest == StripLeadingNewlines(
                       SubSeq(fullMessage, firstNewline + 1, Len(fullMessage)))
         IN [title |-> title,
             body |-> IF Len(rest) > 0 THEN Text(rest) ELSE Null]

(***************************************************************************)
(* What doFetch() assembles from the answers                               *)
(***************************************************************************)
\* commitCountResponse, the response to `${API}/commits?per_page=1`: several
\* commits (a Link header naming the last page), a single commit or none (no
\* Link header), or a non-2xx status.
CommitCountResponse(a) ==
  IF a = "paged"
    THEN [ok |-> TRUE,
          link |-> <<[page |-> 2, rel |-> "next"],
                     [page |-> MaxPage, rel |-> "last"]>>,
          body |-> [isArray |-> TRUE, length |-> PerPage]]
  ELSE IF a = "single"
    THEN [ok |-> TRUE, link |-> NoLink,
          body |-> [isArray |-> TRUE, length |-> 1]]
  ELSE IF a = "empty"
    THEN [ok |-> TRUE, link |-> NoLink,
          body |-> [isArray |-> TRUE, length |-> 0]]
  ELSE NoResponse

\* const totalCommits = extractLastPage(commitCountResponse)
TotalCommits(a) == extractLastPage(CommitCountResponse(a))

\* The logins of stargazers and the keys of the social-profile table.
Logins == {"u1", "u2"}

TableKeys == {"u1", "u3"}

Fields == {"mastodon", "twitter", "bluesky"}

\* stargazersResult.data: up to two users, in the order of the response.
StargazerLists ==
  {<<>>} \cup {<<u>> : u \in Logins} \cup
  {l \in Logins \X Logins : l[1] # l[2]}

\* socialCache.entries: login -> the handles the entry carries.
SocialTables == UNION {[keys -> SUBSET Fields] : keys \in SUBSET TableKeys}

\* let socialCache = { generatedAt: null, entries: {} }
EmptyTable == [k \in {} |-> {}]

\* if (cacheResponse.ok) socialCache = await cacheResponse.json()
SocialCache(a, table) == IF a = "table" THEN table ELSE EmptyTable

\* The map that keeps only the stargazers the table knows.
StargazersInTable(data, table) ==
  LET known == SelectSeq(data, LAMBDA u : u \in DOMAIN table) IN
    [i \in 1..Len(known) |-> [login |-> known[i], fields |-> table[known[i]]]]

\* stargazers: stargazersResult.data.map((user) => { ... }): fields is the
\* set of mastodon/twitter/bluesky properties that are not undefined.
Stargazers(data, table) ==
  [i \in 1..Len(data) |->
     [login |-> data[i],
      fields |-> {f \in Fields :
                    data[i] \in DOMAIN table /\ f \in table[data[i]]}]]

NoResult ==
  [weeklyActivity |-> "pending", totalCommits |-> NoCount,
   socialCache |-> EmptyTable, stargazers |-> <<>>]

(***************************************************************************)
(* useTUIkitVersion: values and helpers                                    *)
(***************************************************************************)
\* const CACHE_DURATION_MS = 24 * 60 * 60 * 1000.  The hook's cooldown,
\* FORCE_REFRESH_COOLDOWN_MS = 60 * 1000, has the name and the value of the
\* constant of useGitHubStatsCache.
CACHE_DURATION_MS == 86400000

\* Date.now() when the version hook is mounted.
VersionStart == 90000000

\* The clock of the version hook advances by this step and stops here.
VersionTickMs == 30000

VersionMaxTime == 90120000

\* The number of doFetch() calls and of forceRefresh() calls of the version
\* hook a behaviour may hold.
MaxVersionFetches == 2

MaxForceCalls == 2

VersionFetchIds == 1..MaxVersionFetches

\* Version strings, named by where they come from: the build-time value, the
\* value of the entry stored before the session, the tag the GitHub API
\* returned to fetch f, the content of /version-cache.json read by fetch f.
BuildVersion == <<"build", 0>>

StoredVersion == <<"stored", 0>>

ApiVersion(f) == <<"api", f>>

PreCacheVersion(f) == <<"precache", f>>

\* localStorage['tuikit-version-cache']
NoVersionEntry ==
  [kind |-> "absent", version |-> BuildVersion, fetchedAt |-> NoTime,
   source |-> "none"]

VersionEntry(v, t, src) ==
  [kind |-> "valid", version |-> v, fetchedAt |-> t, source |-> src]

\* Stored texts that are not an entry: the empty string; text JSON.parse
\* rejects; JSON for a falsy value; an object whose version is not a string;
\* an object whose fetchedAt is not a number.
InvalidVersionKinds == {"empty", "garbage", "falsy", "noVersion", "noFetchedAt"}

InvalidVersionText(k) == [NoVersionEntry EXCEPT !.kind = k]

\* Ages (ms) of the entry found at mount.
VersionCacheAges ==
  {VersionTickMs, FORCE_REFRESH_COOLDOWN_MS, CACHE_DURATION_MS - 1,
   CACHE_DURATION_MS}

VersionStoreTexts ==
  {NoVersionEntry} \cup {InvalidVersionText(k) : k \in InvalidVersionKinds}
  \cup {VersionEntry(StoredVersion, VersionStart - a, "api") :
          a \in VersionCacheAges}

\* function readCache() of useTUIkitVersion: what it returns and what is
\* stored afterwards.  With localStorage disabled getItem throws and so does
\* the removeItem of the catch block.
readVersionCache(s, mode) ==
  IF mode = "disabled" THEN [result |-> NoVersionEntry, store |-> s]
  \* if (!raw) return null
  ELSE IF s.kind \in {"absent", "empty"}
    THEN [result |-> NoVersionEntry, store |-> s]
  ELSE IF s.kind = "valid" THEN [result |-> s, store |-> s]
  \* JSON.parse throws, or the shape test fails: removeItem, return null
  ELSE [result |-> NoVersionEntry, store |-> NoVersionEntry]

\* writeCache that labels every entry as an API result.
writeVersionCacheAsApi(s, mode, v, src, t) ==
  [fetchedAt |-> t,
   store |-> IF mode = "ok" THEN VersionEntry(v, t, "api") ELSE s]

\* function writeCache(version, source) of useTUIkitVersion
writeVersionCache(s, mode, v, src, t) ==
  [fetchedAt |-> t,
   store |-> IF mode = "ok" THEN VersionEntry(v, t, src) ELSE s]

\* cached && now - cached.fetchedAt < CACHE_DURATION_MS
IsFreshVersion(e, t) == e.kind = "valid" /\ t - e.fetchedAt < CACHE_DURATION_MS

\* lastFetchedAt === null || Date.now() - lastFetchedAt >= COOLDOWN
CanForceRefresh(lfa, t) ==
  lfa = NoTime \/ t - lfa >= FORCE_REFRESH_COOLDOWN_MS

\* A doFetch() call of the version hook that has not been made.
NoVersionFetch ==
  [stage |-> "none", issuedAt |-> NoTime, got |-> BuildVersion,
   source |-> "none", stamp |-> NoTime]

\* The hook after its first render: the useState initial values, the ref,
\* and the canForceRefresh the render computed.
VersionHookInit ==
  [version |-> BuildVersion, loading |-> FALSE, error |-> NoError,
   isFromCache |-> FALSE, lastFetchedAt |-> NoTime, initializedRef |-> FALSE,
   canForceRefresh |-> TRUE]

\* The surroundings of the version hook: the clock, localStorage and its
\* mode, the doFetch() calls, and the forceRefresh() calls made (history).
VersionEnvInit ==
  [now |-> VersionStart, store |-> NoVersionEntry, mode |-> "ok",
   fetches |-> [f \in VersionFetchIds |-> NoVersionFetch], nIssued |-> 0,
   calls |-> 0, lastCallAccepted |-> FALSE, lastAcceptedAt |-> NoTime]

(***************************************************************************)
(* usePlansCache and useCopyToClipboard: values                            *)
(***************************************************************************)
\* usePlansCache before its effect ran: the useState initial values, with
\* the clock, localStorage and the request the hook depends on.
PlansInit ==
  [data |-> "null", loading |-> TRUE, error |-> NoError,
   isFromCache |-> FALSE, lastFetchedAt |-> NoTime, stage |-> "rendered",
   requests |-> 0, mounts |-> 0, now |-> StartTime, store |-> "absent",
   storedAt |-> NoTime, mode |-> "ok"]

\* useCopyToClipboard after its first render, with the clock, the timers of
\* the page and the clipboard writes in flight.
ClipboardInit ==
  [copied |-> FALSE, timerRef |-> NoId, mounted |-> TRUE, now |-> 0,
   timers |-> {}, nTimers |-> 0, writing |-> 0, copies |-> 0,
   copiedAt |-> NoTime, cancelledDue |-> NoTime]

\* The machines that are not running.
StoreIdle ==
  /\ store = NoEntry
  /\ storeMode = "ok"
  /\ storeNow = StartTime
  /\ storeLog = <<>>

FetcherIdle ==
  /\ responses = [r \in Requests |-> "unsent"]
  /\ silent = {}
  /\ position = "idle"
  /\ activityResult = NoActivity
  /\ stargazersResult = <<>>
  /\ result = NoResult

HelperIdle ==
  /\ helper = "idle"
  /\ argResponse = NoResponse
  /\ argMessage = <<>>
  /\ retCount = NoCount
  /\ retSplit = NoSplit
  /\ returned = FALSE

VersionIdle == versionHook = VersionHookInit /\ versionEnv = VersionEnvInit

PlansIdle == plans = PlansInit

ClipboardIdle == clipboard = ClipboardInit

OtherHooksIdle == VersionIdle /\ PlansIdle /\ ClipboardIdle

AuxIdle == StoreIdle /\ FetcherIdle /\ HelperIdle /\ OtherHooksIdle

(***************************************************************************)
(* Freshness policy                                                        *)
(***************************************************************************)
\* A plausible slip: the comparison reversed.
IsFreshEntryReversed(c, t) ==
  c.kind = "valid" /\ t - c.fetchedAt > REFRESH_INTERVAL_MS

\* cached && now - cached.fetchedAt < REFRESH_INTERVAL_MS
IsFreshEntry(c, t) ==
  c.kind = "valid" /\ t - c.fetchedAt < REFRESH_INTERVAL_MS

\* A plausible slip: the boundary is inside the cooldown.
CooldownActiveInclusive(lfa, t) ==
  lfa # NoTime /\ t - lfa <= FORCE_REFRESH_COOLDOWN_MS

\* lastFetchedAt !== null && Date.now() - lastFetchedAt < FORCE_REFRESH_COOLDOWN_MS
CooldownActive(lfa, t) ==
  lfa # NoTime /\ t - lfa < FORCE_REFRESH_COOLDOWN_MS

\* A plausible slip: the wrong constant.
RefreshDeadlineCooldown(t) == t + FORCE_REFRESH_COOLDOWN_MS

\* setNextRefreshAt(timestamp + REFRESH_INTERVAL_MS)
RefreshDeadline(t) == t + REFRESH_INTERVAL_MS

\* A plausible slip: the one-shot is always armed for a full TTL.
InitialDelayFull(c, t) == REFRESH_INTERVAL_MS

\* initialDelay of the auto-refresh effect
InitialDelay(c, t) ==
  IF c.kind = "valid"
    THEN Max(0, REFRESH_INTERVAL_MS - (t - c.fetchedAt))
    ELSE REFRESH_INTERVAL_MS

(***************************************************************************)
(* What the facade returns                                                 *)
(***************************************************************************)
\* A plausible slip: the override is ignored.
ActiveStatsRaw == stats

\* const activeStats = overrideStats ?? rawStats
ActiveStats ==
  IF overrideStats.set
    THEN [data |-> overrideStats.data, loading |-> overrideStats.loading,
          error |-> overrideStats.error]
    ELSE stats

\* const hasData = lastFetchedAt !== null
hasData == lastFetchedAt # NoTime

\* statsWithLoadingOverride
statsWithLoadingOverride ==
  IF hasData THEN [ActiveStats EXCEPT !.loading = FALSE] ELSE ActiveStats

ExposedData == statsWithLoadingOverride.data

ExposedLoading == statsWithLoadingOverride.loading

ExposedError == statsWithLoadingOverride.error

\* The part of the returned object that shows data and its provenance.
Display ==
  [data |-> ExposedData, lastFetchedAt |-> lastFetchedAt,
   nextRefreshAt |-> nextRefreshAt, isFromCache |-> isFromCache,
   cache |-> cache]

(***************************************************************************)
(* Fetches                                                                 *)
(***************************************************************************)
InFlight(f) == fetches[f].stage \in InFlightStages

\* A fetch whose signal was aborted while a request of it was pending: the
\* pending request rejects and the continuation is queued as a microtask.
PendingAbort(f) == InFlight(f) /\ fetches[f].aborted

NoMicrotask == \A f \in FetchIds : ~PendingAbort(f)

\* controllerRef.current?.abort()
AbortCurrent(fs) ==
  [g \in FetchIds |->
     IF g = controllerRef THEN [fs[g] EXCEPT !.aborted = TRUE] ELSE fs[g]]

\* doFetchAndCache() up to the first await inside doFetch():
\*   setIsRefreshing(true); abort the previous controller; install a new one;
\*   setStats(prev => ({...prev, loading: true, error: null})); start the
\*   parallel requests.  `alive` says whether the component is mounted (React
\*   drops state updates of an unmounted component).
StartFetch(origin, alive) ==
  /\ nIssued < MaxFetches
  /\ LET f == nIssued + 1 IN
       /\ nIssued' = f
       /\ fetches' =
            [AbortCurrent(fetches) EXCEPT
               ![f] = [NoFetch EXCEPT !.stage = "fanout", !.origin = origin,
                                      !.issuedAt = now]]
       /\ controllerRef' = f
       /\ preState' = [preState EXCEPT ![f] = Display]
  /\ stats' = IF alive THEN [stats EXCEPT !.loading = TRUE, !.error = NoError]
                       ELSE stats
  /\ isRefreshing' = IF alive THEN TRUE ELSE isRefreshing

\* A plausible slip: a throwing setItem leaves writeCache(), so the empty
\* catch of doFetchAndCache() skips the state updates.
ResolveFetchWriteThrows(f, storageOk) ==
  /\ fetches' = [fetches EXCEPT ![f].stage = "resolved",
                                ![f].settledAborted = fetches[f].aborted]
  /\ cache' = WriteCache(cache, f, now, storageOk)
  /\ cacheWriters' = IF storageOk THEN cacheWriters \cup {f} ELSE cacheWriters
  /\ IF phase = "mounted"
       THEN /\ stats' = [data |-> f, loading |-> FALSE, error |-> NoError]
            /\ isRefreshing' = FALSE
            /\ IF storageOk
                 THEN /\ lastFetchedAt' = now
                      /\ nextRefreshAt' = RefreshDeadline(now)
                      /\ isFromCache' = FALSE
                      /\ overrideStats' = [set |-> TRUE, data |-> f,
                                           loading |-> FALSE, error |-> NoError]
                      /\ applied' = applied \cup {f}
                 ELSE UNCHANGED <<facadeVars, applied>>
       ELSE UNCHANGED <<stats, facadeVars, isRefreshing, applied>>
  /\ preState' = [preState EXCEPT ![f] = NoPre]
  /\ UNCHANGED <<now, phase, controllerRef, nIssued, timerVars, historyVars>>

\* A plausible slip: lastFetchedAt is stamped with the time the fetch was
\* started instead of the timestamp writeCache() returns.
ResolveFetchStampsStart(f, storageOk) ==
  /\ fetches' = [fetches EXCEPT ![f].stage = "resolved",
                                ![f].settledAborted = fetches[f].aborted]
  /\ cache' = WriteCache(cache, f, now, storageOk)
  /\ cacheWriters' = IF storageOk THEN cacheWriters \cup {f} ELSE cacheWriters
  /\ IF phase = "mounted"
       THEN /\ stats' = [data |-> f, loading |-> FALSE, error |-> NoError]
            /\ lastFetchedAt' = fetches[f].issuedAt
            /\ nextRefreshAt' = RefreshDeadline(now)
            /\ isFromCache' = FALSE
            /\ overrideStats' = [set |-> TRUE, data |-> f, loading |-> FALSE,
                                 error |-> NoError]
            /\ isRefreshing' = FALSE
            /\ applied' = applied \cup {f}
       ELSE UNCHANGED <<stats, facadeVars, isRefreshing, applied>>
  /\ preState' = [preState EXCEPT ![f] = NoPre]
  /\ UNCHANGED <<now, phase, controllerRef, nIssued, timerVars, historyVars>>

\* A plausible slip: setIsFromCache(false) is forgotten.
ResolveFetchKeepsFlag(f, storageOk) ==
  /\ fetches' = [fetches EXCEPT ![f].stage = "resolved",
                                ![f].settledAborted = fetches[f].aborted]
  /\ cache' = WriteCache(cache, f, now, storageOk)
  /\ cacheWriters' = IF storageOk THEN cacheWriters \cup {f} ELSE cacheWriters
  /\ IF phase = "mounted"
       THEN /\ stats' = [data |-> f, loading |-> FALSE, error |-> NoError]
            /\ lastFetchedAt' = now
            /\ nextRefreshAt' = RefreshDeadline(now)
            /\ isFromCache' = isFromCache
            /\ overrideStats' = [set |-> TRUE, data |-> f, loading |-> FALSE,
                                 error |-> NoError]
            /\ isRefreshing' = FALSE
            /\ applied' = applied \cup {f}
       ELSE UNCHANGED <<stats, facadeVars, isRefreshing, applied>>
  /\ preState' = [preState EXCEPT ![f] = NoPre]
  /\ UNCHANGED <<now, phase, controllerRef, nIssued, timerVars, historyVars>>

\* doFetch() returns `result`, then doFetchAndCache() continues after its await:
\*   setStats(result); writeCache(freshData); setLastFetchedAt(timestamp);
\*   setNextRefreshAt(timestamp + REFRESH_INTERVAL_MS); setIsFromCache(false);
\*   setOverrideStats({...freshData, loading: false}); finally
\*   setIsRefreshing(false).
ResolveFetch(f, storageOk) ==
  /\ fetches' = [fetches EXCEPT ![f].stage = "resolved",
                                ![f].settledAborted = fetches[f].aborted]
  /\ cache' = WriteCache(cache, f, now, storageOk)
  /\ cacheWriters' = IF storageOk THEN cacheWriters \cup {f} ELSE cacheWriters
  /\ IF phase = "mounted"
       THEN /\ stats' = [data |-> f, loading |-> FALSE, error |-> NoError]
            /\ lastFetchedAt' = now
            /\ nextRefreshAt' = RefreshDeadline(now)
            /\ isFromCache' = FALSE
            /\ overrideStats' = [set |-> TRUE, data |-> f, loading |-> FALSE,
                                 error |-> NoError]
            /\ isRefreshing' = FALSE
            /\ applied' = applied \cup {f}
       ELSE UNCHANGED <<stats, facadeVars, isRefreshing, applied>>
  /\ preState' = [preState EXCEPT ![f] = NoPre]
  /\ UNCHANGED <<now, phase, controllerRef, nIssued, timerVars, historyVars>>

\* A plausible slip: setIsRefreshing(false) sits at the end of the try block
\* instead of the finally block.
RejectFetchKeepsRefreshing(f, cause, primary) ==
  /\ fetches' = [fetches EXCEPT ![f].stage = "rejected", ![f].cause = cause,
                                ![f].primary = primary,
                                ![f].settledAborted = fetches[f].aborted]
  /\ stats' = IF phase = "mounted" /\ ~fetches[f].aborted
                THEN [stats EXCEPT !.loading = FALSE, !.error = cause]
                ELSE stats
  /\ isRefreshing' = isRefreshing
  /\ preState' = [preState EXCEPT ![f] = NoPre]
  /\ UNCHANGED <<now, phase, cache, controllerRef, nIssued, facadeVars,
                 timerVars, historyVars, applied, cacheWriters>>

\* A plausible slip: the catch block does not record the error.
RejectFetchSilent(f, cause, primary) ==
  /\ fetches' = [fetches EXCEPT ![f].stage = "rejected", ![f].cause = cause,
                                ![f].primary = primary,
                                ![f].settledAborted = fetches[f].aborted]
  /\ stats' = IF phase = "mounted" /\ ~fetches[f].aborted
                THEN [stats EXCEPT !.loading = FALSE]
                ELSE stats
  /\ isRefreshing' = IF phase = "mounted" THEN FALSE ELSE isRefreshing
  /\ preState' = [preState EXCEPT ![f] = NoPre]
  /\ UNCHANGED <<now, phase, cache, controllerRef, nIssued, facadeVars,
                 timerVars, historyVars, applied, cacheWriters>>

\* doFetch() throws out of its catch block, then doFetchAndCache() runs its
\* empty catch and its finally.  A cancelled fetch rethrows before setStats.
RejectFetch(f, cause, primary) ==
  /\ fetches' = [fetches EXCEPT ![f].stage = "rejected", ![f].cause = cause,
                                ![f].primary = primary,
                                ![f].settledAborted = fetches[f].aborted]
  /\ stats' = IF phase = "mounted" /\ ~fetches[f].aborted
                THEN [stats EXCEPT !.loading = FALSE, !.error = cause]
                ELSE stats
  /\ isRefreshing' = IF phase = "mounted" THEN FALSE ELSE isRefreshing
  /\ preState' = [preState EXCEPT ![f] = NoPre]
  /\ UNCHANGED <<now, phase, cache, controllerRef, nIssued, facadeVars,
                 timerVars, historyVars, applied, cacheWriters>>

(***************************************************************************)
(* Initial state: the component has rendered once, its effects have not    *)
(* run yet.  The cache slot is empty, corrupt, or holds a valid entry.     *)
(***************************************************************************)
InitialCaches ==
  {NoEntry, CorruptEntry} \cup
  {ValidEntry(CachedData, StartTime - a) : a \in CacheAges}

HookInit ==
  /\ now = StartTime
  /\ phase = "init"
  /\ cache \in InitialCaches
  /\ stats = initialStats
  /\ controllerRef = NoId
  /\ fetches = [f \in FetchIds |-> NoFetch]
  /\ nIssued = 0
  /\ overrideStats = NoOverride
  /\ lastFetchedAt = NoTime
  /\ nextRefreshAt = NoTime
  /\ isFromCache = FALSE
  /\ isRefreshing = FALSE
  /\ intervalRef = NoId
  /\ timeoutId = NoId
  /\ timers = [i \in TimerIds |-> NoTimer]
  /\ nTimers = 0
  /\ mountedAt = NoTime
  /\ cacheAtMount = NoEntry
  /\ refused = FALSE
  /\ applied = {}
  /\ cacheWriters = {}
  /\ preState = [f \in FetchIds |-> NoPre]

Init == HookInit /\ AuxIdle

(***************************************************************************)
(* Mount: the mount effect, then the auto-refresh effect                   *)
(***************************************************************************)
Mount ==
  /\ UNCHANGED auxVars
  /\ phase = "init"
  /\ phase' = "mounted"
  /\ mountedAt' = now
  /\ cacheAtMount' = ReadCache(cache)
  /\ cache' = CacheAfterRead(cache)
  /\ LET cached == ReadCache(cache) IN
       /\ IF IsFreshEntry(cached, now)
            THEN /\ overrideStats' = [set |-> TRUE, data |-> cached.data,
                                      loading |-> FALSE, error |-> NoError]
                 /\ lastFetchedAt' = cached.fetchedAt
                 /\ nextRefreshAt' = RefreshDeadline(cached.fetchedAt)
                 /\ isFromCache' = TRUE
                 /\ UNCHANGED <<stats, controllerRef, fetches, nIssued,
                                isRefreshing, preState>>
            ELSE /\ StartFetch("mount", TRUE)
                 /\ UNCHANGED facadeVars
       \* setTimeout(..., initialDelay)
       /\ timers' = [timers EXCEPT ![1] =
                       [kind |-> "timeout", due |-> now + InitialDelay(cached, now),
                        live |-> TRUE]]
       /\ timeoutId' = 1
       /\ nTimers' = 1
  /\ UNCHANGED <<now, intervalRef, refused, applied, cacheWriters>>

(***************************************************************************)
(* Timers                                                                  *)
(***************************************************************************)
Due(i) == timers[i].live /\ timers[i].due <= now

\* intervalRef.current = setInterval(() => doFetchAndCache(), REFRESH_INTERVAL_MS)
SetInterval(ts) ==
  [ts EXCEPT ![nTimers + 1] =
     [kind |-> "interval", due |-> now + REFRESH_INTERVAL_MS, live |-> TRUE]]

\* clearInterval(id) / clearTimeout(id); a null or dead handle is ignored.
ClearTimer(ts, id) ==
  [i \in TimerIds |-> IF i = id THEN [ts[i] EXCEPT !.live = FALSE] ELSE ts[i]]

\* The callback of the one-shot timeout.
TimeoutFire ==
  /\ UNCHANGED auxVars
  /\ NoMicrotask
  /\ timeoutId # NoId
  /\ Due(timeoutId)
  /\ StartFetch("timeout", phase = "mounted")
  /\ timers' = SetInterval(ClearTimer(timers, timeoutId))
  /\ intervalRef' = nTimers + 1
  /\ nTimers' = nTimers + 1
  /\ UNCHANGED <<now, phase, cache, facadeVars, timeoutId, historyVars,
                 applied, cacheWriters>>

\* The callback of a repeating interval.
IntervalFire(i) ==
  /\ UNCHANGED auxVars
  /\ NoMicrotask
  /\ timers[i].kind = "interval"
  /\ Due(i)
  /\ StartFetch("interval", phase = "mounted")
  /\ timers' = [timers EXCEPT ![i].due = @ + REFRESH_INTERVAL_MS]
  /\ UNCHANGED <<now, phase, cache, facadeVars, intervalRef, timeoutId,
                 nTimers, historyVars, applied, cacheWriters>>

(***************************************************************************)
(* forceRefresh()                                                          *)
(***************************************************************************)
ForceRefresh ==
  /\ UNCHANGED auxVars
  /\ NoMicrotask
  /\ phase = "mounted"
  /\ IF CooldownActive(lastFetchedAt, now)
       THEN \* return; // Cooldown active: ignore
            /\ refused' = TRUE
            /\ UNCHANGED <<now, phase, cache, stats, controllerRef, fetches,
                           nIssued, facadeVars, isRefreshing, timerVars,
                           mountedAt, cacheAtMount, applied, cacheWriters,
                           preState>>
       ELSE /\ StartFetch("manual", TRUE)
            /\ timers' = SetInterval(ClearTimer(timers, intervalRef))
            /\ intervalRef' = nTimers + 1
            /\ nTimers' = nTimers + 1
            /\ UNCHANGED <<now, phase, cache, facadeVars, timeoutId,
                           historyVars, applied, cacheWriters>>

(***************************************************************************)
(* Unmount: the cleanups of the effects                                    *)
(***************************************************************************)
Unmount ==
  /\ UNCHANGED auxVars
  /\ NoMicrotask
  /\ phase = "mounted"
  /\ phase' = "unmounted"
  \* clearTimeout(timeoutId); if (intervalRef.current) clearInterval(...)
  /\ timers' = ClearTimer(ClearTimer(timers, timeoutId), intervalRef)
  \* return () => controllerRef.current?.abort()
  /\ fetches' = AbortCurrent(fetches)
  /\ UNCHANGED <<now, cache, stats, controllerRef, nIssued, facadeVars,
                 isRefreshing, intervalRef, timeoutId, nTimers, historyVars,
                 applied, cacheWriters, preState>>

(***************************************************************************)
(* Network responses of a fetch that has not been cancelled                *)
(***************************************************************************)
\* The outcomes of the members of the Promise.all that can reject it: the
\* repository overview, the commit list, the languages and the ghCount calls.
\* The weekly-activity and stargazer members catch their own failures and
\* always fulfil.
FanoutOutcomes ==
  [primary : Outcomes, commits : Outcomes, languages : Outcomes,
   counts : Outcomes]

\* The members that reject: ghFetch throws on a non-2xx status and on a
\* network error; ghCount returns 0 on a non-2xx status and rejects on a
\* network error.
FanoutFailures(o) ==
  (IF o.primary # "ok" THEN {"primary"} ELSE {}) \cup
  (IF o.commits # "ok" THEN {"commits"} ELSE {}) \cup
  (IF o.languages # "ok" THEN {"languages"} ELSE {}) \cup
  (IF o.counts = "net" THEN {"count"} ELSE {})

\* await Promise.all([...]) settles.  A response takes time: it does not
\* arrive in the millisecond in which the request was sent.
FanoutSettle(f, o) ==
  /\ UNCHANGED auxVars
  /\ NoMicrotask
  /\ ~fetches[f].aborted
  /\ fetches[f].stage = "fanout"
  /\ now > fetches[f].issuedAt
  /\ IF FanoutFailures(o) # {}
       THEN \E c \in FanoutFailures(o) : RejectFetch(f, c, o.primary)
       ELSE /\ fetches' = [fetches EXCEPT ![f].stage = "commitCount",
                                          ![f].primary = o.primary]
            /\ UNCHANGED <<now, phase, cache, stats, controllerRef, nIssued,
                           facadeVars, isRefreshing, timerVars, historyVars,
                           applied, cacheWriters, preState>>

\* await fetch(`${API}/commits?per_page=1`) settles; the status is not looked at.
CommitCountSettle(f, out) ==
  /\ UNCHANGED auxVars
  /\ NoMicrotask
  /\ ~fetches[f].aborted
  /\ fetches[f].stage = "commitCount"
  /\ IF out = "net"
       THEN RejectFetch(f, "commitTotal", fetches[f].primary)
       ELSE /\ fetches' = [fetches EXCEPT ![f].stage = "mergedPRs"]
            /\ UNCHANGED <<now, phase, cache, stats, controllerRef, nIssued,
                           facadeVars, isRefreshing, timerVars, historyVars,
                           applied, cacheWriters, preState>>

\* The merged-PR search settles inside its try/catch.
MergedSettle(f, out) ==
  /\ UNCHANGED auxVars
  /\ NoMicrotask
  /\ ~fetches[f].aborted
  /\ fetches[f].stage = "mergedPRs"
  /\ fetches' = [fetches EXCEPT ![f].stage = "social"]
  /\ UNCHANGED <<now, phase, cache, stats, controllerRef, nIssued, facadeVars,
                 isRefreshing, timerVars, historyVars, applied, cacheWriters,
                 preState>>

\* The social-cache lookup settles inside its try/catch; the snapshot is
\* assembled and returned.
SocialSettle(f, out, storageOk) ==
  /\ UNCHANGED auxVars
  /\ NoMicrotask
  /\ ~fetches[f].aborted
  /\ fetches[f].stage = "social"
  /\ ResolveFetch(f, storageOk)

(***************************************************************************)
(* Continuation of a fetch whose signal was aborted while it was in flight *)
(***************************************************************************)
\* The stages whose pending request sits inside a try/catch that swallows
\* the AbortError.
SwallowingStages == {"mergedPRs", "social"}

AbortedSettle(f, storageOk) ==
  /\ UNCHANGED auxVars
  /\ PendingAbort(f)
  /\ IF fetches[f].stage \in SwallowingStages
       THEN \* the catch blocks swallow the rejection; the lookup that follows
            \* rejects at once and is swallowed too; the snapshot is returned
            ResolveFetch(f, storageOk)
       ELSE \* the rejection reaches the outer catch: if (signal.aborted) throw err
            /\ storageOk
            /\ RejectFetch(f, "abort", fetches[f].primary)

(***************************************************************************)
(* The clock                                                               *)
(***************************************************************************)
DueTimes == {timers[i].due : i \in {j \in TimerIds : timers[j].live}}

\* Time passes up to the next timer deadline, TickMs at most.  After the
\* unmount the clock is followed only while a timer or a request is pending.
Tick ==
  /\ UNCHANGED auxVars
  /\ NoMicrotask
  /\ \/ phase = "mounted"
     \/ phase = "unmounted" /\ (DueTimes # {} \/ \E f \in FetchIds : InFlight(f))
  /\ now < MaxTime
  /\ \A i \in TimerIds : ~Due(i)
  /\ LET t == now + TickMs
         next == IF \E d \in DueTimes : d < t
                   THEN CHOOSE d \in DueTimes : \A e \in DueTimes : d <= e
                   ELSE t
     IN now' = Min(next, MaxTime)
  /\ UNCHANGED <<phase, cache, stats, controllerRef, fetches, nIssued,
                 facadeVars, isRefreshing, timerVars, historyVars, applied,
                 cacheWriters, preState>>

Next ==
  \/ Mount
  \/ TimeoutFire
  \/ \E i \in TimerIds : IntervalFire(i)
  \/ ForceRefresh
  \/ Unmount
  \/ \E f \in FetchIds, o \in FanoutOutcomes : FanoutSettle(f, o)
  \/ \E f \in FetchIds, out \in Outcomes : CommitCountSettle(f, out)
  \/ \E f \in FetchIds, out \in Outcomes : MergedSettle(f, out)
  \/ \E f \in FetchIds, out \in Outcomes, storageOk \in BOOLEAN :
       SocialSettle(f, out, storageOk)
  \/ \E f \in FetchIds, storageOk \in BOOLEAN : AbortedSettle(f, storageOk)
  \/ Tick

Spec == Init /\ [][Next]_vars

(***************************************************************************)
(* Properties                                                              *)
(***************************************************************************)
\* The entry found at mount was structurally valid and younger than the TTL.
FreshAtMount ==
  /\ cacheAtMount.kind = "valid"
  /\ mountedAt - cacheAtMount.fetchedAt < REFRESH_INTERVAL_MS

\* The entry found at mount was structurally valid and at least one TTL old.
StaleAtMount ==
  /\ cacheAtMount.kind = "valid"
  /\ mountedAt - cacheAtMount.fetchedAt >= REFRESH_INTERVAL_MS

Settled(f) == fetches[f].stage \in {"resolved", "rejected"}

\* Fetch f fails in this step, its signal not aborted.
FailsNow(f) ==
  /\ InFlight(f)
  /\ ~fetches[f].aborted
  /\ fetches'[f].stage = "rejected"

\* C1 (supersession): a fetch that was superseded while in flight is never
\* adopted by the facade: every fetch whose result doFetchAndCache applied to
\* the displayed snapshot, lastFetchedAt, nextRefreshAt and isFromCache had a
\* signal that was not aborted when it settled.
C1_NoStaleResultApplied ==
  \A f \in applied : ~fetches[f].settledAborted

\* C2 (staleness): with a valid entry of age >= TTL at mount, the mount
\* effect and the one-shot timer together issue exactly one fetch at mount
\* time.
C2_StaleMountIssuesOneFetch ==
  (phase # "init" /\ StaleAtMount) =>
    Cardinality({f \in FetchIds :
                   /\ fetches[f].origin \in {"mount", "timeout"}
                   /\ fetches[f].issuedAt = mountedAt}) = 1

\* C3 (freshness): with a valid entry e of age < TTL at mount, the mount
\* effect issues no fetch, the one-shot timer issues none at mount time, and
\* until a fetch is issued the facade exposes the data of e with
\* loading = false, isFromCache = true and lastFetchedAt = e.fetchedAt.
C3_FreshMountServesCache ==
  (phase # "init" /\ FreshAtMount) =>
    /\ \A f \in FetchIds : fetches[f].origin # "mount"
    /\ \A f \in FetchIds :
         fetches[f].origin = "timeout" => fetches[f].issuedAt > mountedAt
    /\ (phase = "mounted" /\ nIssued = 0) =>
         /\ ExposedData = cacheAtMount.data
         /\ ~ExposedLoading
         /\ isFromCache
         /\ lastFetchedAt = cacheAtMount.fetchedAt

\* A fresh entry was adopted at mount, time has passed, no fetch was issued.
C3_Witness ==
  /\ phase = "mounted"
  /\ FreshAtMount
  /\ nIssued = 0
  /\ now > mountedAt
  /\ ExposedData = CachedData

\* C4 (no-blank-on-error, error part): when a refresh fails on its primary
\* request while the facade shows data, the error exposed afterwards is
\* non-null.
C4_FailedRefreshExposesError ==
  [][\A f \in FetchIds :
       (FailsNow(f) /\ fetches'[f].cause = "primary" /\ phase = "mounted" /\ hasData)
         => ExposedError' # NoError]_vars

\* C5 (no-blank-on-error, data part): when a refresh that was started while
\* the facade showed data fails, the displayed snapshot, lastFetchedAt,
\* nextRefreshAt, isFromCache and the stored cache entry are what they were
\* when that refresh started.
C5_FailedRefreshKeepsDisplay ==
  [][\A f \in FetchIds :
       (FailsNow(f) /\ phase = "mounted" /\ preState[f].lastFetchedAt # NoTime)
         => Display' = preState[f]]_vars

\* C6: the exposed loading and isRefreshing flags are never both true.
C6_LoadingExcludesRefreshing ==
  phase = "mounted" => ~(ExposedLoading /\ isRefreshing)

\* C7: once lastFetchedAt is non-null it stays non-null, and in every state
\* with lastFetchedAt non-null the exposed loading flag is false and the
\* displayed snapshot is not the empty initial record.
C7_NoSkeletonOnceDataShown ==
  [][/\ hasData => hasData'
     /\ hasData' => (~ExposedLoading' /\ ExposedData' # EmptyData)]_vars

\* Data is shown while one refresh was superseded and a later one failed.
C7_Witness ==
  /\ phase = "mounted"
  /\ hasData
  /\ \E f, g \in FetchIds :
       /\ fetches[f].stage = "rejected" /\ fetches[f].settledAborted
       /\ fetches[g].stage = "rejected" /\ fetches[g].cause = "primary"

\* C8 (cooldown): two forceRefresh() calls at different times less than the
\* cooldown apart never both issue a fetch.
C8_CooldownBetweenManualFetches ==
  \A f, g \in FetchIds :
    (/\ fetches[f].origin = "manual"
     /\ fetches[g].origin = "manual"
     /\ fetches[f].issuedAt < fetches[g].issuedAt)
      => fetches[g].issuedAt - fetches[f].issuedAt >= FORCE_REFRESH_COOLDOWN_MS

\* C9: a fetch that settles without having been cancelled rejects if and
\* only if its primary repository-overview request failed.
C9_RejectsIffPrimaryFails ==
  \A f \in FetchIds :
    (Settled(f) /\ ~fetches[f].settledAborted) =>
      (fetches[f].stage = "rejected" <=> fetches[f].primary \in {"http", "net"})

\* C10: every write of the cache entry comes from a fetch whose signal was
\* not aborted when it completed.
C10_NoCancelledCacheWrite ==
  \A f \in cacheWriters : ~fetches[f].settledAborted

\* The fields of the object the hook returns to display components.
FacadeState ==
  [data |-> ExposedData, loading |-> ExposedLoading, error |-> ExposedError,
   lastFetchedAt |-> lastFetchedAt, nextRefreshAt |-> nextRefreshAt,
   isFromCache |-> isFromCache, isRefreshing |-> isRefreshing]

\* The continuation of fetch f, superseded while in flight, runs in this step.
CancelledSettlesNow(f) ==
  /\ PendingAbort(f)
  /\ controllerRef # f
  /\ fetches'[f].stage \notin InFlightStages

\* C11 (cancellation is silent): the continuation of a fetch that was
\* superseded while in flight changes no field of what the facade exposes:
\* data, loading, error, lastFetchedAt, nextRefreshAt, isFromCache and
\* isRefreshing are after it what they were before it.
C11_CancellationIsSilent ==
  [][\A f \in FetchIds :
       (CancelledSettlesNow(f) /\ phase = "mounted")
         => FacadeState' = FacadeState]_vars

LiveTimers(k) == {i \in TimerIds : timers[i].live /\ timers[i].kind = k}

\* Fetches dispatched by the scheduler (the one-shot timer or an interval).
ScheduledOrigins == {"timeout", "interval"}

\* C12 (one schedule): the hook holds at most one pending one-shot timeout
\* and at most one live repeating interval, never a pending one-shot and a
\* live interval together, and every live interval is the one whose handle
\* intervalRef holds.
C12_SingleSchedule ==
  /\ Cardinality(LiveTimers("timeout")) <= 1
  /\ Cardinality(LiveTimers("interval")) <= 1
  /\ ~(LiveTimers("timeout") # {} /\ LiveTimers("interval") # {})
  /\ \A i \in LiveTimers("interval") : i = intervalRef

\* C13 (teardown): once the hook is unmounted no timer it created is live.
C13_NoTimerAfterUnmount ==
  phase = "unmounted" => \A i \in TimerIds : ~timers[i].live

\* C14 (manual refresh resets the clock): a fetch dispatched by the scheduler
\* after an accepted forceRefresh() is dispatched no earlier than one TTL
\* after that forceRefresh().
C14_ManualResetsClock ==
  \A f, g \in FetchIds :
    (/\ fetches[f].origin = "manual"
     /\ fetches[g].origin \in ScheduledOrigins
     /\ f < g)
      => fetches[g].issuedAt >= fetches[f].issuedAt + REFRESH_INTERVAL_MS

\* C15: while data is displayed and a fetch that has not been superseded is
\* in flight, isRefreshing is true.
C15_RefreshingWhileInFlight ==
  (/\ phase = "mounted"
   /\ hasData
   /\ \E f \in FetchIds : InFlight(f) /\ ~fetches[f].aborted)
    => isRefreshing

\* C16 (warm start): with a fresh entry e at mount the one-shot timer is
\* armed for the remaining TTL: it is due at e.fetchedAt + TTL, the fetch it
\* dispatches is issued then, and no interval dispatches a fetch earlier.
C16_WarmStartArmsRemainingTtl ==
  (phase # "init" /\ FreshAtMount) =>
    /\ timers[timeoutId].kind = "timeout"
    /\ timers[timeoutId].due = cacheAtMount.fetchedAt + REFRESH_INTERVAL_MS
    /\ timers[timeoutId].due - mountedAt =
         REFRESH_INTERVAL_MS - (mountedAt - cacheAtMount.fetchedAt)
    /\ \A f \in FetchIds :
         /\ fetches[f].origin = "timeout" =>
              fetches[f].issuedAt = cacheAtMount.fetchedAt + REFRESH_INTERVAL_MS
         /\ fetches[f].origin = "interval" =>
              fetches[f].issuedAt > cacheAtMount.fetchedAt + REFRESH_INTERVAL_MS

\* An entry 120000 ms old was adopted at mount and the one-shot dispatched
\* its fetch 180000 ms after the mount.
C16_Witness ==
  /\ FreshAtMount
  /\ mountedAt - cacheAtMount.fetchedAt = 120000
  /\ \E f \in FetchIds :
       /\ fetches[f].origin = "timeout"
       /\ fetches[f].issuedAt = mountedAt + 180000

\* readCache() returned null to the mount effect.
ColdAtMount == cacheAtMount.kind = "absent"

\* The fetch issued by the mount effect, not superseded, resolves in this
\* step.
MountFetchResolvesNow ==
  /\ phase = "mounted"
  /\ ColdAtMount
  /\ InFlight(1)
  /\ ~fetches[1].aborted
  /\ fetches'[1].stage = "resolved"

\* With no entry at mount a fetch is issued at mount time and loading is
\* exposed as true while it is in flight.
ColdStartLoads ==
  (phase # "init" /\ ColdAtMount) =>
    /\ fetches[1].origin = "mount"
    /\ fetches[1].issuedAt = mountedAt
    /\ (phase = "mounted" /\ InFlight(1)) => ExposedLoading

\* What the facade exposes once the mount fetch has resolved at time now.
ColdStartAdopted ==
  /\ ExposedData' = 1
  /\ ~ExposedLoading'
  /\ ~isFromCache'
  /\ lastFetchedAt' = now
  /\ nextRefreshAt' = now + REFRESH_INTERVAL_MS

\* C17 as stated (cold start): with no entry at mount a fetch is issued at
\* once and loading is true until it resolves; when it resolves at time T the
\* cache holds its snapshot with fetchedAt = T and the facade exposes the
\* snapshot with loading = false, isFromCache = false, lastFetchedAt = T and
\* nextRefreshAt = T + TTL.
C17_ColdStart ==
  [][/\ ColdStartLoads'
     /\ MountFetchResolvesNow =>
          (ColdStartAdopted /\ cache' = ValidEntry(1, now))]_vars

\* C17 amended (cold start): as above, but the cache holds the snapshot with
\* fetchedAt = T only when the storage accepted the write; when setItem
\* threw, the stored entry is what it was and the facade still adopts the
\* snapshot.
C17_ColdStartStorage ==
  [][/\ ColdStartLoads'
     /\ MountFetchResolvesNow =>
          /\ ColdStartAdopted
          /\ IF 1 \in cacheWriters'
               THEN cache' = ValidEntry(1, now)
               ELSE cache' = cache]_vars

\* The mount fetch of a cold start has resolved and was stored.
C17_Witness ==
  /\ phase = "mounted"
  /\ ColdAtMount
  /\ fetches[1].origin = "mount"
  /\ fetches[1].stage = "resolved"
  /\ ~fetches[1].settledAborted
  /\ 1 \in cacheWriters
  /\ nIssued = 1
  /\ now > mountedAt
  /\ cache = ValidEntry(1, lastFetchedAt)
  /\ ExposedData = 1
  /\ ~ExposedLoading

\* Scheduled fetch f has failed, the hook is mounted, and nothing was
\* dispatched after f.
FailedScheduledIsLatest(f) ==
  /\ phase = "mounted"
  /\ fetches[f].origin \in ScheduledOrigins
  /\ fetches[f].stage = "rejected"
  /\ ~fetches[f].settledAborted
  /\ nIssued = f

\* C18 (no stall on failure): after a scheduled fetch has failed and until
\* something else is dispatched, the hook is in the periodic phase (the
\* interval held in intervalRef is live) and the next dispatch of the
\* schedule is due exactly one TTL after the failed fetch was dispatched.
C18_ScheduleSurvivesFailure ==
  \A f \in FetchIds :
    FailedScheduledIsLatest(f) =>
      /\ intervalRef \in LiveTimers("interval")
      /\ LiveTimers("timeout") = {}
      /\ DueTimes = {fetches[f].issuedAt + REFRESH_INTERVAL_MS}

\* lastFetchedAt is non-null and less than 60000 ms old.
InCooldown ==
  lastFetchedAt # NoTime /\ now - lastFetchedAt < 60000

\* A forceRefresh() call returns at the cooldown check in this step.
RefusedNow == refused' # refused

\* A forceRefresh() call is accepted in this step.
AcceptedNow ==
  \E f \in FetchIds :
    fetches[f].origin = "none" /\ fetches'[f].origin = "manual"

\* C19 (cooldown gate): a forceRefresh() call is refused only when
\* lastFetchedAt is non-null and less than 60000 ms old, and accepted only
\* otherwise; a refused call issues no fetch, aborts no fetch, and leaves the
\* timers, the cache entry and everything the facade exposes unchanged.
C19_CooldownGate ==
  [][/\ RefusedNow =>
          /\ InCooldown
          /\ UNCHANGED <<now, phase, cache, stats, controllerRef, fetches,
                         nIssued, facadeVars, isRefreshing, timerVars,
                         mountedAt, cacheAtMount, applied, cacheWriters,
                         preState>>
          /\ FacadeState' = FacadeState
     /\ AcceptedNow => ~InCooldown]_vars

\* A forceRefresh() was accepted exactly 60000 ms after the entry adopted at
\* mount was fetched, and a call was refused less than 60000 ms after that
\* fetch had resolved.
C19_Witness ==
  /\ phase = "mounted"
  /\ FreshAtMount
  /\ \E f \in FetchIds :
       /\ fetches[f].origin = "manual"
       /\ fetches[f].issuedAt - cacheAtMount.fetchedAt = 60000
       /\ fetches[f].stage = "resolved"
  /\ refused
  /\ now - lastFetchedAt < 60000

\* C20: nextRefreshAt is null exactly when lastFetchedAt is null, and
\* otherwise nextRefreshAt = lastFetchedAt + 300000.
C20_NextRefreshFollowsLastFetched ==
  IF lastFetchedAt = NoTime
    THEN nextRefreshAt = NoTime
    ELSE nextRefreshAt # NoTime /\ nextRefreshAt = lastFetchedAt + 300000

\* A cached entry was adopted at mount and later replaced by a fetched
\* snapshot.
C20_Witness ==
  /\ phase = "mounted"
  /\ FreshAtMount
  /\ applied # {}
  /\ lastFetchedAt > mountedAt
  /\ nextRefreshAt = lastFetchedAt + 300000

\* The time at which the scheduler dispatches its next fetch: the earliest
\* deadline of a live timer (NoTime when no timer is live).
NextDispatchAt ==
  IF DueTimes = {} THEN NoTime
  ELSE CHOOSE d \in DueTimes : \A e \in DueTimes : d <= e

\* C21: while the hook is mounted, nextRefreshAt is non-null and no fetch is
\* in flight, nextRefreshAt is the time at which the scheduler dispatches its
\* next fetch.
C21_NextRefreshIsNextDispatch ==
  (/\ phase = "mounted"
   /\ nextRefreshAt # NoTime
   /\ \A f \in FetchIds : ~InFlight(f))
    => NextDispatchAt = nextRefreshAt

\* C22: isFromCache is true exactly when a fresh entry was adopted at mount
\* and no fetch has been adopted since; then the displayed snapshot is that
\* entry's, and otherwise (nothing displayed yet, or a fetch adopted) it is
\* not.  A failing fetch leaves isFromCache as it was.
C22_IsFromCacheIffCacheShown ==
  [][/\ (isFromCache' <=> (phase' # "init" /\ FreshAtMount' /\ applied' = {}))
     /\ isFromCache' => ExposedData' = cacheAtMount'.data
     /\ (phase' = "mounted" /\ ~isFromCache') => ExposedData' # CachedData
     /\ \A f \in FetchIds : FailsNow(f) => isFromCache' = isFromCache]_vars

\* A refresh failed while the snapshot adopted from the cache was displayed.
C22_Witness ==
  /\ phase = "mounted"
  /\ isFromCache
  /\ ExposedData = CachedData
  /\ \E f \in FetchIds :
       fetches[f].stage = "rejected" /\ ~fetches[f].settledAborted

\* A fetch is started in this step.
StartsNow == nIssued' = nIssued + 1

\* C23 (cold-start failure): when a fetch whose primary request fails settles
\* while nothing is displayable, the facade exposes a non-null error with
\* loading = false and a timer of the schedule is still live; and whenever a
\* fetch starts or is adopted while the hook is mounted, the exposed error is
\* null afterwards.
C23_ColdFailureVisibleNotFatal ==
  [][/\ \A f \in FetchIds :
          (/\ FailsNow(f)
           /\ fetches'[f].primary \in {"http", "net"}
           /\ phase = "mounted"
           /\ ~hasData)
            => /\ ExposedError' # NoError
               /\ ~ExposedLoading'
               /\ NextDispatchAt' # NoTime
     /\ (phase' = "mounted" /\ (StartsNow \/ applied' # applied))
          => ExposedError' = NoError]_vars

\* The mount fetch of a cold start failed on its primary request, and a later
\* fetch was adopted: the error is gone.
C23_Witness ==
  /\ phase = "mounted"
  /\ ColdAtMount
  /\ fetches[1].stage = "rejected"
  /\ ~fetches[1].settledAborted
  /\ fetches[1].primary \in {"http", "net"}
  /\ 2 \in applied
  /\ ExposedError = NoError

(***************************************************************************)
(* The storage machine: readCache() and writeCache() called in any order   *)
(* on any stored text, while the clock runs and localStorage changes mode. *)
(***************************************************************************)
StoreTexts ==
  {NoEntry} \cup {InvalidText(k) : k \in InvalidKinds} \cup
  {ValidEntry(CachedData, StartTime - a) : a \in CacheAges}

NoStamp == NoTime

\* The log with one more call, the oldest dropped when it is full.
Logged(call) ==
  IF Len(storeLog) < StoreLogLen THEN Append(storeLog, call)
  ELSE Append(Tail(storeLog), call)

StoreInit ==
  /\ HookInit
  /\ FetcherIdle
  /\ HelperIdle
  /\ OtherHooksIdle
  /\ cache = NoEntry
  /\ store \in StoreTexts
  /\ storeMode \in StoreModes
  /\ storeNow = StartTime
  /\ storeLog = <<>>

\* const cached = readCache()
StoreRead ==
  LET r == readCache(store, storeMode) IN
    /\ store' = r.store
    /\ storeLog' = Logged([op |-> "read", mode |-> storeMode, found |-> store,
                           entry |-> r.result, stamp |-> NoStamp,
                           threw |-> r.threw])
    /\ UNCHANGED <<storeMode, storeNow, restOfStore>>

\* const timestamp = writeCache(freshData)
StoreWrite(d) ==
  LET w == writeCache(store, storeMode, d, storeNow) IN
    /\ store' = w.store
    /\ storeLog' = Logged([op |-> "write", mode |-> storeMode, found |-> store,
                           entry |-> NoEntry, stamp |-> w.result,
                           threw |-> w.threw])
    /\ UNCHANGED <<storeMode, storeNow, restOfStore>>

\* Time passes.
StoreTick ==
  /\ storeNow < MaxTime
  /\ storeNow' = Min(storeNow + TickMs, MaxTime)
  /\ UNCHANGED <<store, storeMode, storeLog, restOfStore>>

\* The browser's storage fills up, is disabled, or works again.
StoreSetMode(m) ==
  /\ m # storeMode
  /\ storeMode' = m
  /\ UNCHANGED <<store, storeNow, storeLog, restOfStore>>

StoreNext ==
  \/ StoreRead
  \/ \E d \in FetchIds : StoreWrite(d)
  \/ StoreTick
  \/ \E m \in StoreModes : StoreSetMode(m)

StoreSpec == StoreInit /\ [][StoreNext]_vars

\* The latest call of the log.
LastCall == storeLog[Len(storeLog)]

\* C24 (self-healing read): a readCache() call that finds text that is not
\* a cache entry (not JSON, no numeric fetchedAt, no data) returns null and
\* leaves the slot empty; no readCache() call throws, whatever the state of
\* localStorage, and with localStorage disabled it returns null.
C24_ReadCacheSelfHeals ==
  [][(storeLog' # storeLog /\ LastCall'.op = "read") =>
       /\ ~LastCall'.threw
       /\ LastCall'.mode = "disabled" => LastCall'.entry = NoEntry
       /\ (LastCall'.mode # "disabled" /\ LastCall'.found.kind \in InvalidKinds)
            => (LastCall'.entry = NoEntry /\ store' = NoEntry)]_vars

\* Fetch f resolves in this step while the hook is mounted.
ResolvesNow(f) ==
  /\ phase = "mounted"
  /\ InFlight(f)
  /\ fetches'[f].stage = "resolved"

\* C25 (storage-write failure is invisible): writeCache() returns the
\* timestamp and throws nothing in every storage mode; and when a fetch
\* resolves and its snapshot could not be stored, the stored entry is what
\* it was and the facade exposes the snapshot with lastFetchedAt = now,
\* nextRefreshAt = now + TTL, isFromCache = false, loading = false and no
\* error, as after a successful write.
C25_WriteFailureInvisible ==
  [][\A f \in FetchIds :
       ResolvesNow(f) =>
         /\ \A m \in StoreModes :
              LET w == writeCache(NoEntry, m, f, now)
              IN w.result = now /\ ~w.threw
         /\ f \notin cacheWriters' => cache' = cache
         /\ ExposedData' = f
         /\ lastFetchedAt' = now
         /\ nextRefreshAt' = now + REFRESH_INTERVAL_MS
         /\ ~isFromCache'
         /\ ~ExposedLoading'
         /\ ExposedError' = NoError]_vars

\* A fetched snapshot is displayed that could not be stored.
C25_Witness ==
  /\ phase = "mounted"
  /\ \E f \in FetchIds :
       /\ fetches[f].stage = "resolved"
       /\ f \in applied
       /\ f \notin cacheWriters
       /\ ExposedData = f
       /\ cache.data # f
  /\ ~isFromCache
  /\ nextRefreshAt = lastFetchedAt + REFRESH_INTERVAL_MS

\* Call i of the log is a readCache() that found a valid entry.
ReadOfValid(i) ==
  /\ storeLog[i].op = "read"
  /\ storeLog[i].found.kind = "valid"

\* What was stored right after call i of the log.
StoredAfter(i) ==
  IF i < Len(storeLog) THEN storeLog[i + 1].found ELSE store

\* C26 (reads are idempotent and read-only): a readCache() that finds a
\* valid entry leaves the stored entry, its fetchedAt included, as it was,
\* whatever its age, and returns it when localStorage is accessible; two
\* readCache() calls in a row on a valid entry return identical entries.
C26_ReadIsIdempotent ==
  /\ \A i \in 1..Len(storeLog) :
       ReadOfValid(i) =>
         /\ StoredAfter(i) = storeLog[i].found
         /\ storeLog[i].mode # "disabled" => storeLog[i].entry = storeLog[i].found
  /\ \A i \in 1..(Len(storeLog) - 1) :
       (/\ ReadOfValid(i)
        /\ storeLog[i + 1].op = "read"
        /\ storeLog[i].mode # "disabled"
        /\ storeLog[i + 1].mode # "disabled")
         => storeLog[i + 1].entry = storeLog[i].entry

\* A valid entry older than the TTL was read twice in a row and is still
\* stored with its fetchedAt.
C26_Witness ==
  /\ Len(storeLog) = 2
  /\ ReadOfValid(1)
  /\ ReadOfValid(2)
  /\ storeLog[1].mode = "ok"
  /\ storeLog[2].mode = "ok"
  /\ storeNow - storeLog[1].found.fetchedAt > REFRESH_INTERVAL_MS
  /\ store = storeLog[1].found
  /\ storeLog[2].entry = storeLog[1].entry

(***************************************************************************)
(* The fetcher machine: one doFetch() call of useGitHubStats whose         *)
(* requests answer one at a time, in any order, those in `silent' never.   *)
(***************************************************************************)
\* What the fetcher machine leaves alone.
restOfFetcher == <<hookVars, storeVars, helperVars, otherHooks>>

\* doFetch() has sent the parallel requests and awaits the Promise.all.
FetcherInit ==
  /\ HookInit
  /\ StoreIdle
  /\ HelperIdle
  /\ OtherHooksIdle
  /\ cache = NoEntry
  /\ responses =
       [r \in Requests |-> IF r \in ParallelRequests THEN "pending"
                           ELSE "unsent"]
  /\ silent \in SUBSET StaticLookups
  /\ position = "fanout"
  /\ activityResult = NoActivity
  /\ stargazersResult = <<>>
  /\ result = NoResult

Answerable(r) == responses[r] = "pending" /\ r \notin silent

\* A parallel request has resolved: if it was the last one, the Promise.all
\* resolves and doFetch() sends the commit-count request.
PromiseAllStep(resp, act) ==
  IF FanoutResolved(resp, act)
  THEN /\ position' = "commitCount"
       /\ responses' = [resp EXCEPT !["commitCount"] = "pending"]
  ELSE /\ position' = position
       /\ responses' = resp

\* The Promise.all (or an await after it) rejects: doFetch() rejects.
DoFetchRejects(resp) ==
  /\ position' = "rejected"
  /\ responses' = resp

\* ghFetch("") / ghFetch("/commits?per_page=20") / ghFetch("/languages")
GhFetchAnswer(r, a) ==
  /\ position = "fanout"
  /\ r \in {"repo", "commits", "languages"}
  /\ Answerable(r)
  /\ IF a = "ok"
     THEN PromiseAllStep([responses EXCEPT ![r] = a], activityResult)
     ELSE DoFetchRejects([responses EXCEPT ![r] = a])
  /\ UNCHANGED <<silent, activityResult, stargazersResult, result,
                 restOfFetcher>>

\* ghCount(...): a non-2xx status counts as 0, a failed fetch() rejects.
GhCountAnswer(a) ==
  /\ position = "fanout"
  /\ Answerable("counts")
  /\ IF a = "net"
     THEN DoFetchRejects([responses EXCEPT !["counts"] = a])
     ELSE PromiseAllStep([responses EXCEPT !["counts"] = a], activityResult)
  /\ UNCHANGED <<silent, activityResult, stargazersResult, result,
                 restOfFetcher>>

\* ghFetch("/stargazers?per_page=100").catch(() => ({ data: [], ... }))
StargazersAnswer(a, data) ==
  /\ position = "fanout"
  /\ Answerable("stargazers")
  /\ stargazersResult' = IF a = "ok" THEN data ELSE <<>>
  /\ PromiseAllStep([responses EXCEPT !["stargazers"] = a], activityResult)
  /\ UNCHANGED <<silent, activityResult, result, restOfFetcher>>

\* ghFetch("/stats/commit_activity"): a non-empty array is the result, any
\* other answer sends the request for the static file.
ActivityAnswer(a) ==
  /\ position = "fanout"
  /\ Answerable("activity")
  /\ IF a = "series"
     THEN /\ activityResult' = ActivityResult(a, responses["activityCache"])
          /\ PromiseAllStep([responses EXCEPT !["activity"] = a],
                            activityResult')
     ELSE /\ activityResult' = activityResult
          /\ position' = position
          /\ responses' = [responses EXCEPT !["activity"] = a,
                                            !["activityCache"] = "pending"]
  /\ UNCHANGED <<silent, stargazersResult, result, restOfFetcher>>

\* fetch('/weekly-activity-cache.json', { signal })
ActivityCacheAnswer(a) ==
  /\ position = "fanout"
  /\ Answerable("activityCache")
  /\ activityResult' = ActivityResult(responses["activity"], a)
  /\ PromiseAllStep([responses EXCEPT !["activityCache"] = a],
                    activityResult')
  /\ UNCHANGED <<silent, stargazersResult, result, restOfFetcher>>

\* const commitCountResponse = await fetch(`${API}/commits?per_page=1`, ...)
CommitCountAnswer(a) ==
  /\ position = "commitCount"
  /\ Answerable("commitCount")
  /\ IF a = "net"
     THEN DoFetchRejects([responses EXCEPT !["commitCount"] = a])
     ELSE /\ position' = "mergedPRs"
          /\ responses' = [responses EXCEPT !["commitCount"] = a,
                                            !["mergedPRs"] = "pending"]
  /\ UNCHANGED <<silent, activityResult, stargazersResult, result,
                 restOfFetcher>>

\* try { searchResult = await fetch(...search/issues...) ... } catch {}
MergedPRsAnswer(a) ==
  /\ position = "mergedPRs"
  /\ Answerable("mergedPRs")
  /\ position' = "social"
  /\ responses' = [responses EXCEPT !["mergedPRs"] = a,
                                    !["social"] = "pending"]
  /\ UNCHANGED <<silent, activityResult, stargazersResult, result,
                 restOfFetcher>>

\* try { cacheResponse = await fetch("/social-cache.json", ...) } catch {},
\* then the result object is built and returned.
SocialAnswer(a, table) ==
  /\ position = "social"
  /\ Answerable("social")
  /\ position' = "resolved"
  /\ responses' = [responses EXCEPT !["social"] = a]
  /\ LET socialCache == SocialCache(a, table) IN
       result' = [weeklyActivity |-> WeeklyActivity(activityResult.data),
                  totalCommits |-> TotalCommits(responses["commitCount"]),
                  socialCache |-> socialCache,
                  stargazers |-> Stargazers(stargazersResult, socialCache)]
  /\ UNCHANGED <<silent, activityResult, stargazersResult, restOfFetcher>>

FetcherNext ==
  \/ \E r \in Requests, a \in Outcomes : GhFetchAnswer(r, a)
  \/ \E a \in Outcomes : GhCountAnswer(a)
  \/ \E a \in Outcomes, data \in StargazerLists : StargazersAnswer(a, data)
  \/ \E a \in Answers("activity") : ActivityAnswer(a)
  \/ \E a \in Answers("activityCache") : ActivityCacheAnswer(a)
  \/ \E a \in Answers("commitCount") : CommitCountAnswer(a)
  \/ \E a \in Outcomes : MergedPRsAnswer(a)
  \/ \E a \in Answers("social"), table \in SocialTables : SocialAnswer(a, table)

FetcherSpec == FetcherInit /\ [][FetcherNext]_vars

\* doFetch() has returned or thrown.
DoFetchSettled == position \in {"resolved", "rejected"}

\* C27 (a silent static lookup does not block the fetch): whichever of the
\* two static files never answers, doFetch() is never left waiting with
\* nothing that can still happen; until it has resolved or rejected, some
\* request can answer and move it on.
C27_SilentLookupDoesNotBlock == DoFetchSettled \/ ENABLED FetcherNext

\* A request of the weekly-activity function answers in this step.
ActivityAnswersNow ==
  \/ responses'["activity"] # responses["activity"]
  \/ /\ responses["activityCache"] = "pending"
     /\ responses'["activityCache"] # "pending"

\* The series the three tiers prescribe for the answers of the two requests.
ThreeTierSeries(live, static) ==
  IF live = "series" THEN LiveSeries
  ELSE IF static = "series" THEN StaticSeries
  ELSE EmptySeries

\* C28 (weekly-activity fallback): an answer of the live endpoint or of the
\* static file never rejects doFetch(); once the requests made have
\* answered, the function has resolved, to the live series if the live
\* endpoint returned a non-empty array, else to the static series if the
\* file loaded, else to the empty series; and the snapshot carries that
\* series.
C28_ThreeTierFallback ==
  [][/\ ActivityAnswersNow => position' # "rejected"
     /\ ActivityAnswersNow /\ responses'["activityCache"] # "pending"
          => /\ activityResult' # NoActivity
             /\ WeeklyActivity(activityResult'.data) =
                  ThreeTierSeries(responses'["activity"],
                                  responses'["activityCache"])
     /\ position' = "resolved"
          => result'.weeklyActivity =
               ThreeTierSeries(responses'["activity"],
                               responses'["activityCache"])]_vars

\* doFetch() has resolved with the static series after the live endpoint
\* failed.
C28_Witness ==
  /\ position = "resolved"
  /\ responses["activity"] \in {"http", "net"}
  /\ responses["activityCache"] = "series"
  /\ result.weeklyActivity = StaticSeries

(***************************************************************************)
(* The helper machine: one call of ghCount, extractLastPage or            *)
(* splitCommitMessage on any argument.                                     *)
(***************************************************************************)
\* What the helper machine leaves alone.
restOfHelper == <<hookVars, storeVars, fetcherVars, otherHooks>>

Helpers == {"ghCount", "extractLastPage", "splitCommitMessage"}

\* A helper is about to be called with an argument.
HelperInit ==
  /\ HookInit
  /\ StoreIdle
  /\ FetcherIdle
  /\ OtherHooksIdle
  /\ cache = NoEntry
  /\ helper \in Helpers
  /\ IF helper = "splitCommitMessage"
     THEN argMessage \in Messages /\ argResponse = NoResponse
     ELSE argResponse \in Responses /\ argMessage = <<>>
  /\ retCount = NoCount
  /\ retSplit = NoSplit
  /\ returned = FALSE

\* ghCount(path, signal), from the response to its request on.
CallGhCount ==
  /\ helper = "ghCount"
  /\ ~returned
  /\ retCount' = ghCount(argResponse)
  /\ returned' = TRUE
  /\ UNCHANGED <<helper, argResponse, argMessage, retSplit, restOfHelper>>

\* extractLastPage(response)
CallExtractLastPage ==
  /\ helper = "extractLastPage"
  /\ ~returned
  /\ retCount' = extractLastPage(argResponse)
  /\ returned' = TRUE
  /\ UNCHANGED <<helper, argResponse, argMessage, retSplit, restOfHelper>>

\* splitCommitMessage(fullMessage)
CallSplitCommitMessage ==
  /\ helper = "splitCommitMessage"
  /\ ~returned
  /\ retSplit' = splitCommitMessage(argMessage)
  /\ returned' = TRUE
  /\ UNCHANGED <<helper, argResponse, argMessage, retCount, restOfHelper>>

HelperNext ==
  \/ CallGhCount
  \/ CallExtractLastPage
  \/ CallSplitCommitMessage

HelperSpec == HelperInit /\ [][HelperNext]_vars

\* The pages the Link header names as rel="last".
LastPages(link) ==
  {link[i].page : i \in {j \in 1..Len(link) : link[j].rel = "last"}}

\* C29 (count via pagination): ghCount returns 0 for a non-success status;
\* for a success status it returns the page of the rel="last" link when the
\* Link header has one, and otherwise the number of items of the array in
\* the body.
C29_CountViaPagination ==
  (helper = "ghCount" /\ returned) =>
    /\ ~argResponse.ok => retCount = 0
    /\ argResponse.ok /\ LastPages(argResponse.link) # {}
         => LastPages(argResponse.link) = {retCount}
    /\ argResponse.ok /\ LastPages(argResponse.link) = {}
         /\ argResponse.body.isArray
         => retCount = argResponse.body.length

\* A 2xx response with one item and no Link header has been counted as 1.
C29_Witness ==
  /\ helper = "ghCount"
  /\ returned
  /\ argResponse.ok
  /\ argResponse.link = NoLink
  /\ argResponse.body = [isArray |-> TRUE, length |-> 1]
  /\ retCount = 1

\* s consists of newlines only (or is empty).
OnlyNewlines(s) == \A i \in 1..Len(s) : s[i] = NL

HasNewline(s) == \E i \in 1..Len(s) : s[i] = NL

C31_LeftOuterJoin ==
  position = "resolved" =>
    /\ Len(result.stargazers) = Len(stargazersResult)
    /\ \A i \in 1..Len(stargazersResult) :
         /\ result.stargazers[i].login = stargazersResult[i]
         /\ \A f \in Fields :
              f \in result.stargazers[i].fields <=>
                /\ responses["social"] = "table"
                /\ stargazersResult[i] \in DOMAIN result.socialCache
                /\ f \in result.socialCache[stargazersResult[i]]

\* doFetch() has resolved with two stargazers of whom the table knows only
\* the second, and knows a user who is no stargazer.
C31_Witness ==
  /\ position = "resolved"
  /\ responses["social"] = "table"
  /\ stargazersResult = <<"u2", "u1">>
  /\ DOMAIN result.socialCache = {"u1", "u3"}
  /\ result.socialCache["u1"] = {"mastodon", "bluesky"}
  /\ Len(result.stargazers) = 2
  /\ result.stargazers[1] = [login |-> "u2", fields |-> {}]
  /\ result.stargazers[2] = [login |-> "u1", fields |-> {"mastodon", "bluesky"}]

\* C33 (total commits): the totalCommits of a resolved snapshot is what the
\* count-via-pagination rule gives for the commits response: the last page
\* of the Link header, or without one the number of items returned, so 1
\* for a repository with a single commit.
C33_TotalCommitsCountsItems ==
  (position = "resolved" /\ responses["commitCount"] # "http") =>
    result.totalCommits = ghCount(CommitCountResponse(responses["commitCount"]))

\* C37 (the refresh indicator settles): while the component is mounted,
\* isRefreshing is false whenever no fetch is in flight, whether the fetches
\* made so far resolved, rejected or were cancelled.
C37_RefreshingSettles ==
  (phase = "mounted" /\ \A f \in FetchIds : ~InFlight(f)) => ~isRefreshing

\* Two fetches have been made, the first was cancelled by the second, the
\* second failed, and the indicator is off.
C37_Witness ==
  /\ phase = "mounted"
  /\ nIssued = 2
  /\ fetches[1].settledAborted
  /\ fetches[2].stage = "rejected"
  /\ ~fetches[2].aborted
  /\ ~isRefreshing

\* The facade and the stored entry agree.
StoreMatchesFacade ==
  (phase = "mounted" /\ lastFetchedAt # NoTime) =>
    /\ cache.kind = "valid"
    /\ cache.fetchedAt = lastFetchedAt
    /\ cache.data = ExposedData

\* A fetch resolves in this step and localStorage refuses its snapshot.
WriteFailsNow == \E f \in FetchIds : ResolvesNow(f) /\ f \notin cacheWriters'

\* C38 (store/facade consistency): no step other than a refused storage
\* write breaks the agreement of facade and store: while the component is
\* mounted and lastFetchedAt is non-null, the stored entry is valid, its
\* fetchedAt is lastFetchedAt and its data is the displayed snapshot, after
\* warm and cold mounts, successful, failed and superseded fetches.
C38_StoreMatchesFacade ==
  [][(StoreMatchesFacade /\ ~WriteFailsNow) => StoreMatchesFacade']_vars

\* A first fetch has resolved and been stored, a second one has failed, and
\* the stored entry is the displayed snapshot of the first.
C38_Witness ==
  /\ phase = "mounted"
  /\ fetches[1].stage = "resolved"
  /\ fetches[2].stage = "rejected"
  /\ lastFetchedAt # NoTime
  /\ cache = ValidEntry(1, lastFetchedAt)
  /\ ExposedData = 1

(***************************************************************************)
(* useTUIkitVersion (VersionSpec): the mount effect, forceRefresh() and    *)
(* doFetch() with its two requests, the GitHub API and the pre-cache file. *)
(***************************************************************************)
restOfVersion ==
  <<hookVars, storeVars, fetcherVars, helperVars, plans, clipboard>>

VersionInit ==
  /\ HookInit
  /\ cache = NoEntry
  /\ StoreIdle
  /\ FetcherIdle
  /\ HelperIdle
  /\ PlansIdle
  /\ ClipboardIdle
  /\ versionHook = VersionHookInit
  /\ \E s \in VersionStoreTexts, m \in StoreModes :
       versionEnv = [VersionEnvInit EXCEPT !.store = s, !.mode = m]

\* A render of the component: canForceRefresh is computed from the state
\* and Date.now(), and forceRefresh is rebuilt around it.
Render(h, t) ==
  [h EXCEPT !.canForceRefresh = CanForceRefresh(h.lastFetchedAt, t)]

\* React renders again when a setter changed the state.
Rerendered(old, new, t) == IF new = old THEN old ELSE Render(new, t)

VersionInFlight(f) == versionEnv.fetches[f].stage \in {"api", "precache"}

\* doFetch() up to its first await: setLoading(true) and the API request.
VersionDoFetch(h, e) ==
  LET f == e.nIssued + 1 IN
  [hook |-> [h EXCEPT !.loading = TRUE],
   env |-> [e EXCEPT !.nIssued = f,
                     !.fetches[f] = [NoVersionFetch EXCEPT
                                       !.stage = "api", !.issuedAt = e.now]]]

\* useEffect(() => { ... }, [doFetch]) of useTUIkitVersion
VersionMount ==
  /\ ~versionHook.initializedRef
  /\ LET r == readVersionCache(versionEnv.store, versionEnv.mode)
         h == [versionHook EXCEPT !.initializedRef = TRUE]
         e == [versionEnv EXCEPT !.store = r.store]
         d == VersionDoFetch(h, e)
     IN IF IsFreshVersion(r.result, versionEnv.now)
          THEN /\ versionHook' =
                    Rerendered(versionHook,
                               [h EXCEPT !.version = r.result.version,
                                         !.lastFetchedAt = r.result.fetchedAt,
                                         !.isFromCache = TRUE,
                                         !.loading = FALSE],
                               versionEnv.now)
               /\ versionEnv' = e
          ELSE /\ versionHook' = Rerendered(versionHook, d.hook, versionEnv.now)
               /\ versionEnv' = d.env
  /\ UNCHANGED restOfVersion

\* forceRefresh(): if (!canForceRefresh) return; doFetch();
VersionForceRefresh ==
  /\ versionHook.initializedRef
  /\ versionEnv.calls < MaxForceCalls
  /\ LET e == [versionEnv EXCEPT !.calls = @ + 1,
                                 !.lastCallAccepted = versionHook.canForceRefresh]
     IN IF versionHook.canForceRefresh
          THEN /\ versionEnv.nIssued < MaxVersionFetches
               /\ LET d == VersionDoFetch(versionHook, e)
                  IN /\ versionHook' =
                          Rerendered(versionHook, d.hook, versionEnv.now)
                     /\ versionEnv' =
                          [d.env EXCEPT !.lastAcceptedAt = versionEnv.now]
          ELSE /\ versionHook' = versionHook
               /\ versionEnv' = e
  /\ UNCHANGED restOfVersion

\* A fetch found a version: writeCache, the four setters, finally.
VersionFound(f, v, src) ==
  LET w == writeVersionCache(versionEnv.store, versionEnv.mode, v, src,
                             versionEnv.now)
  IN /\ versionHook' =
          Rerendered(versionHook,
                     [versionHook EXCEPT !.version = v,
                                         !.lastFetchedAt = w.fetchedAt,
                                         !.isFromCache = FALSE,
                                         !.error = NoError,
                                         !.loading = FALSE],
                     versionEnv.now)
     /\ versionEnv' =
          [versionEnv EXCEPT !.store = w.store,
                             !.fetches[f] = [@ EXCEPT !.stage = "done",
                                                      !.got = v,
                                                      !.source = src,
                                                      !.stamp = w.fetchedAt]]

\* The GitHub API request of fetch f settles: fetchVersionFromAPI returns
\* a tag or throws, and the catch block asks for the pre-cache file.
VersionApiAnswer(f, ok) ==
  /\ versionEnv.fetches[f].stage = "api"
  /\ IF ok
       THEN VersionFound(f, ApiVersion(f), "api")
       ELSE /\ versionEnv' = [versionEnv EXCEPT !.fetches[f].stage = "precache"]
            /\ versionHook' = versionHook
  /\ UNCHANGED restOfVersion

\* The pre-cache request of fetch f settles: fetchVersionFromPreCache
\* returns a version or null.
VersionPreCacheAnswer(f, found) ==
  /\ versionEnv.fetches[f].stage = "precache"
  /\ IF found
       THEN VersionFound(f, PreCacheVersion(f), "precache")
       ELSE /\ versionHook' =
                 Rerendered(versionHook,
                            [versionHook EXCEPT !.error = "fetch",
                                                !.loading = FALSE],
                            versionEnv.now)
            /\ versionEnv' =
                 [versionEnv EXCEPT !.fetches[f] =
                    [@ EXCEPT !.stage = "done", !.source = "failed"]]
  /\ UNCHANGED restOfVersion

\* Time passes; nothing renders.
VersionTick ==
  /\ versionEnv.now + VersionTickMs <= VersionMaxTime
  /\ versionEnv' = [versionEnv EXCEPT !.now = @ + VersionTickMs]
  /\ UNCHANGED <<versionHook, restOfVersion>>

\* The parent renders the component again.
VersionRerender ==
  /\ versionHook.initializedRef
  /\ Render(versionHook, versionEnv.now) # versionHook
  /\ versionHook' = Render(versionHook, versionEnv.now)
  /\ UNCHANGED <<versionEnv, restOfVersion>>

VersionNext ==
  \/ VersionMount
  \/ VersionForceRefresh
  \/ \E f \in VersionFetchIds, ok \in BOOLEAN : VersionApiAnswer(f, ok)
  \/ \E f \in VersionFetchIds, found \in BOOLEAN : VersionPreCacheAnswer(f, found)
  \/ VersionTick
  \/ VersionRerender

VersionSpec == VersionInit /\ [][VersionNext]_vars

\* The step in which the mount effect of useTUIkitVersion runs.
VersionMountStep == ~versionHook.initializedRef /\ versionHook'.initializedRef

\* What the mount effect can read: nothing when localStorage is disabled.
VersionReadable ==
  IF versionEnv.mode = "disabled" THEN NoVersionEntry ELSE versionEnv.store

\* C32: at mount a valid stored entry younger than 24 hours is served at
\* once (its version, isFromCache = true, lastFetchedAt = entry.fetchedAt,
\* loading = false) without a request; with a stale, absent or malformed
\* entry exactly one fetch is started, and a malformed entry is deleted.
C32_MountServesOrFetches ==
  [][VersionMountStep =>
       IF VersionReadable.kind = "valid"
          /\ versionEnv.now - VersionReadable.fetchedAt < CACHE_DURATION_MS
         THEN /\ versionHook'.version = VersionReadable.version
              /\ versionHook'.isFromCache
              /\ versionHook'.lastFetchedAt = VersionReadable.fetchedAt
              /\ ~versionHook'.loading
              /\ versionEnv'.nIssued = 0
         ELSE /\ versionEnv'.nIssued = 1
              /\ VersionInFlight(1)'
              /\ versionHook'.loading
              /\ VersionReadable.kind \in InvalidVersionKinds
                   => versionEnv'.store = NoVersionEntry]_vars

\* The step in which doFetch() call f of the version hook finishes.
VersionFinishStep(f) ==
  versionEnv.fetches[f].stage # "done" /\ versionEnv'.fetches[f].stage = "done"

\* What call f yielded: "api", "precache" or "failed".
VersionYield(f) == versionEnv'.fetches[f].source

\* What the finishing call f shows on the facade.
VersionFacadeAfter(f) ==
  /\ ~versionHook'.loading
  /\ VersionYield(f) = "api" => versionHook'.version = ApiVersion(f)
  /\ VersionYield(f) = "precache" =>
       /\ versionHook'.version = PreCacheVersion(f)
       /\ versionHook'.error = NoError
  /\ VersionYield(f) = "failed" =>
       /\ versionHook'.version = versionHook.version
       /\ versionHook'.lastFetchedAt = versionHook.lastFetchedAt
       /\ versionEnv'.store = versionEnv.store
       /\ versionHook'.error # NoError

VersionCallStep == versionEnv'.calls = versionEnv.calls + 1

\* The cooldown test on the state of the hook at the time of the call.
VersionCooldownOver ==
  \/ versionHook.lastFetchedAt = NoTime
  \/ versionEnv.now - versionHook.lastFetchedAt >= FORCE_REFRESH_COOLDOWN_MS

\* C35: forceRefresh() starts a fetch if lastFetchedAt is null or
\* now - lastFetchedAt >= 60000 ms and otherwise changes no state, and two
\* calls less than 60000 ms apart start at most one fetch.
C35_ForceRefreshCooldown ==
  [][VersionCallStep =>
       /\ VersionCooldownOver => versionEnv'.nIssued = versionEnv.nIssued + 1
       /\ ~VersionCooldownOver =>
            /\ versionHook' = versionHook
            /\ versionEnv'.nIssued = versionEnv.nIssued
            /\ versionEnv'.store = versionEnv.store
       /\ (/\ versionEnv.lastAcceptedAt # NoTime
           /\ versionEnv.now - versionEnv.lastAcceptedAt
                < FORCE_REFRESH_COOLDOWN_MS)
            => versionEnv'.nIssued = versionEnv.nIssued]_vars

\* C36: when two fetches of the version hook overlap, loading stays true
\* while one of them is in flight, and a fetch that finishes after a later
\* issued one has succeeded leaves version, lastFetchedAt and the cache
\* entry as the later one set them.
C36_LastIssuedWins ==
  [][\A f \in VersionFetchIds :
       VersionFinishStep(f) =>
         /\ (\E g \in VersionFetchIds : g # f /\ VersionInFlight(g))
              => versionHook'.loading
         /\ \A g \in VersionFetchIds :
              (/\ g > f
               /\ versionEnv.fetches[g].stage = "done"
               /\ versionEnv.fetches[g].source \in {"api", "precache"})
                => /\ versionHook'.version = versionEnv.fetches[g].got
                   /\ versionHook'.lastFetchedAt = versionEnv.fetches[g].stamp
                   /\ versionEnv'.store = versionEnv.store]_vars

(***************************************************************************)
(* usePlansCache (PlansSpec): the mount effect and its request for         *)
(* /data/plans.json.                                                       *)
(***************************************************************************)
\* const CACHE_DURATION = 5 * 60 * 1000
PLANS_CACHE_DURATION == 300000

\* The number of times the component is mounted again.
MaxPlansMounts == 2

\* localStorage['tuikit_plans_cache']: nothing; the empty string; text
\* JSON.parse rejects; the text "null"; JSON without a numeric timestamp;
\* an entry {data, timestamp}.
PlansStoreKinds == {"absent", "empty", "garbage", "null", "noTimestamp", "entry"}

\* Ages (ms) of the entry found at the first mount.
PlansCacheAges == {1, PLANS_CACHE_DURATION - 1, PLANS_CACHE_DURATION}

\* How the request for /data/plans.json ends: a parsed body, a status that
\* is not ok, a rejected fetch or a body that is not JSON.
PlansOutcomes == {"ok", "http", "net"}

restOfPlans ==
  <<hookVars, storeVars, fetcherVars, helperVars, versionVars, clipboard>>

PlansSpecInit ==
  /\ HookInit
  /\ cache = NoEntry
  /\ StoreIdle
  /\ FetcherIdle
  /\ HelperIdle
  /\ VersionIdle
  /\ ClipboardIdle
  /\ \E k \in PlansStoreKinds, a \in PlansCacheAges, m \in StoreModes :
       plans = [PlansInit EXCEPT
                  !.store = k,
                  !.storedAt = IF k = "entry" THEN StartTime - a ELSE NoTime,
                  !.mode = m]

\* The try block of the effect up to its first await: "throws" when getItem,
\* JSON.parse or entry.timestamp throws, "fresh" when the entry is served,
\* "fetch" when the request is made.
PlansLookup(p) ==
  IF p.mode = "disabled" THEN "throws"
  ELSE IF p.store \in {"absent", "empty"} THEN "fetch"
  ELSE IF p.store \in {"garbage", "null"} THEN "throws"
  ELSE IF p.store = "entry" /\ p.now - p.storedAt < PLANS_CACHE_DURATION
    THEN "fresh"
  ELSE "fetch"

\* catch { setError(...); setData(null) } finally { setLoading(false) }
PlansCaught(p, cause) ==
  [p EXCEPT !.error = cause, !.data = "null", !.loading = FALSE,
            !.stage = "done"]

\* The mount effect that removes a stored value it cannot read.
PlansMountSelfHeals ==
  /\ plans.stage = "rendered"
  /\ plans' =
       IF PlansLookup(plans) = "throws"
         THEN [PlansCaught(plans, "storage") EXCEPT
                 !.store = "absent", !.storedAt = NoTime]
       ELSE IF PlansLookup(plans) = "fresh"
         THEN [plans EXCEPT !.data = "cached", !.isFromCache = TRUE,
                            !.lastFetchedAt = plans.storedAt,
                            !.loading = FALSE, !.stage = "done"]
       ELSE [plans EXCEPT !.isFromCache = FALSE, !.stage = "fetching",
                          !.requests = @ + 1]
  /\ UNCHANGED restOfPlans

\* useEffect(() => { loadPlans() }, []) up to the first await
PlansMount ==
  /\ plans.stage = "rendered"
  /\ plans' =
       IF PlansLookup(plans) = "throws" THEN PlansCaught(plans, "storage")
       ELSE IF PlansLookup(plans) = "fresh"
         THEN [plans EXCEPT !.data = "cached", !.isFromCache = TRUE,
                            !.lastFetchedAt = plans.storedAt,
                            !.loading = FALSE, !.stage = "done"]
       ELSE [plans EXCEPT !.isFromCache = FALSE, !.stage = "fetching",
                          !.requests = @ + 1]
  /\ UNCHANGED restOfPlans

\* The request settles: setItem, setData, setLastFetchedAt, setError(null),
\* or the catch block when the request failed or setItem threw.
PlansAnswer(o) ==
  /\ plans.stage = "fetching"
  /\ plans' =
       IF o # "ok" THEN PlansCaught(plans, "fetch")
       ELSE IF plans.mode # "ok" THEN PlansCaught(plans, "storage")
       ELSE [plans EXCEPT !.store = "entry", !.storedAt = plans.now,
                          !.data = "fetched", !.lastFetchedAt = plans.now,
                          !.error = NoError, !.loading = FALSE,
                          !.stage = "done"]
  /\ UNCHANGED restOfPlans

\* The component is unmounted and mounted again: a new hook instance with
\* the useState initial values over the same localStorage.
PlansRemount ==
  /\ plans.stage = "done"
  /\ plans.mounts < MaxPlansMounts
  /\ plans' = [plans EXCEPT !.data = "null", !.loading = TRUE,
                            !.error = NoError, !.isFromCache = FALSE,
                            !.lastFetchedAt = NoTime, !.stage = "rendered",
                            !.mounts = @ + 1]
  /\ UNCHANGED restOfPlans

PlansTick ==
  /\ plans.now + TickMs <= MaxTime
  /\ plans' = [plans EXCEPT !.now = @ + TickMs]
  /\ UNCHANGED restOfPlans

PlansNext ==
  \/ PlansMount
  \/ \E o \in PlansOutcomes : PlansAnswer(o)
  \/ PlansRemount
  \/ PlansTick

PlansSpec == PlansSpecInit /\ [][PlansNext]_vars

PlansMountStep == plans.stage = "rendered" /\ plans'.stage # "rendered"

\* C39: at mount a stored entry younger than 5 minutes is served with
\* isFromCache = true and no request; a stored value that cannot be parsed,
\* or parses to null, ends the mount with error non-null, data = null, no
\* request and the stored value left in place (so every later mount ends
\* the same way); whenever the effect has finished loading is false.
C39_PlansMount ==
  [][/\ plans'.stage = "done" => ~plans'.loading
     /\ (PlansMountStep /\ plans.mode # "disabled") =>
          /\ (/\ plans.store = "entry"
              /\ plans.now - plans.storedAt < PLANS_CACHE_DURATION)
               => /\ plans'.data = "cached"
                  /\ plans'.isFromCache
                  /\ plans'.lastFetchedAt = plans.storedAt
                  /\ plans'.requests = plans.requests
                  /\ plans'.stage = "done"
          /\ plans.store \in {"garbage", "null"}
               => /\ plans'.error # NoError
                  /\ plans'.data = "null"
                  /\ plans'.requests = plans.requests
                  /\ plans'.store = plans.store
                  /\ plans'.stage = "done"]_vars

\* The component has been mounted three times over a stored value that
\* cannot be parsed: the third mount ended like the first, with no request.
C39_Witness ==
  /\ plans.mounts = MaxPlansMounts
  /\ plans.stage = "done"
  /\ plans.store \in {"garbage", "null"}
  /\ plans.mode = "ok"
  /\ plans.error # NoError
  /\ plans.data = "null"
  /\ ~plans.loading
  /\ plans.requests = 0

(***************************************************************************)
(* useCopyToClipboard (ClipboardSpec): copy(), the reset timer and the     *)
(* unmount cleanup.                                                        *)
(***************************************************************************)
\* useCopyToClipboard(resetDelayMs = 2000)
ResetDelayMs == 2000

\* The number of copy() calls a behaviour may hold.
MaxCopies == 3

\* The clock of the page advances by this step and stops here.
ClipTickMs == 1000

ClipMaxTime == 6000

restOfClipboard ==
  <<hookVars, storeVars, fetcherVars, helperVars, versionVars, plans>>

ClipboardSpecInit ==
  /\ HookInit
  /\ cache = NoEntry
  /\ StoreIdle
  /\ FetcherIdle
  /\ HelperIdle
  /\ VersionIdle
  /\ PlansIdle
  /\ clipboard = ClipboardInit

\* clearTimeout(id): no effect when the timer has fired or id is null.
ClearTimeout(pending, id) == {t \in pending : t.id # id}

\* When the timer a clearTimeout(id) cancels was due; the value before if
\* it cancels none.
CancelledDue(pending, id, before) ==
  IF \E t \in pending : t.id = id
    THEN (CHOOSE t \in pending : t.id = id).due
    ELSE before

\* copy(text) up to its await: navigator.clipboard.writeText(text)
ClipCopy ==
  /\ clipboard.copies < MaxCopies
  /\ clipboard' = [clipboard EXCEPT !.copies = @ + 1, !.writing = @ + 1]
  /\ UNCHANGED restOfClipboard

\* The write resolved, and the pending timer is left running.
ClipWriteOkKeepsTimer ==
  /\ clipboard.writing > 0
  /\ LET id == clipboard.nTimers + 1 IN
     clipboard' =
       [clipboard EXCEPT
          !.writing = @ - 1,
          !.copied = IF clipboard.mounted THEN TRUE ELSE @,
          !.timers = @ \cup {[id |-> id, due |-> clipboard.now + ResetDelayMs]},
          !.timerRef = id,
          !.nTimers = id,
          !.copiedAt = clipboard.now]
  /\ UNCHANGED restOfClipboard

\* The write resolved: setCopied(true), clearTimeout(timerRef.current),
\* timerRef.current = setTimeout(() => setCopied(false), resetDelayMs).
ClipWriteOk ==
  /\ clipboard.writing > 0
  /\ LET id == clipboard.nTimers + 1 IN
     clipboard' =
       [clipboard EXCEPT
          !.writing = @ - 1,
          !.copied = IF clipboard.mounted THEN TRUE ELSE @,
          !.timers = ClearTimeout(@, clipboard.timerRef)
                       \cup {[id |-> id, due |-> clipboard.now + ResetDelayMs]},
          !.cancelledDue = CancelledDue(clipboard.timers, clipboard.timerRef, @),
          !.timerRef = id,
          !.nTimers = id,
          !.copiedAt = clipboard.now]
  /\ UNCHANGED restOfClipboard

\* The write rejected: catch {} does nothing.
ClipWriteFail ==
  /\ clipboard.writing > 0
  /\ clipboard' = [clipboard EXCEPT !.writing = @ - 1]
  /\ UNCHANGED restOfClipboard

\* A reset timer fires when it is due: setCopied(false).
ClipTimerFire ==
  /\ \E t \in clipboard.timers :
       /\ t.due <= clipboard.now
       /\ clipboard' =
            [clipboard EXCEPT
               !.copied = IF clipboard.mounted THEN FALSE ELSE @,
               !.timers = @ \ {t}]
  /\ UNCHANGED restOfClipboard

\* The cleanup of the effect: if (timerRef.current) clearTimeout(...)
ClipUnmount ==
  /\ clipboard.mounted
  /\ clipboard' =
       [clipboard EXCEPT
          !.mounted = FALSE,
          !.timers = ClearTimeout(@, clipboard.timerRef)]
  /\ UNCHANGED restOfClipboard

\* The time the clock moves to: the next step, or the first timer due
\* before it.
ClipNextTime ==
  LET step == clipboard.now + ClipTickMs
      dues == {t.due : t \in clipboard.timers}
  IN IF \E d \in dues : d < step
       THEN CHOOSE d \in dues : \A e \in dues : d <= e
       ELSE step

\* Time passes, unless a timer is due now.
ClipTick ==
  /\ \A t \in clipboard.timers : t.due > clipboard.now
  /\ ClipNextTime <= ClipMaxTime
  /\ clipboard' = [clipboard EXCEPT !.now = ClipNextTime]
  /\ UNCHANGED restOfClipboard

ClipboardNext ==
  \/ ClipCopy
  \/ ClipWriteOk
  \/ ClipWriteFail
  \/ ClipTimerFire
  \/ ClipUnmount
  \/ ClipTick

ClipboardSpec == ClipboardSpecInit /\ [][ClipboardNext]_vars

\* The hook is mounted and what it shows agrees with its one timer.
ClipboardConsistent ==
  clipboard.mounted =>
    /\ Cardinality(clipboard.timers) <= 1
    /\ clipboard.copied =>
         /\ clipboard.copiedAt # NoTime
         /\ clipboard.timers =
              {[id |-> clipboard.timerRef,
                due |-> clipboard.copiedAt + ResetDelayMs]}
         /\ clipboard.now <= clipboard.copiedAt + ResetDelayMs
    /\ ~clipboard.copied =>
         /\ clipboard.timers = {}
         /\ clipboard.copiedAt # NoTime
              => clipboard.now >= clipboard.copiedAt + ResetDelayMs

\* A step in which a clipboard write is rejected.
ClipFailStep ==
  /\ clipboard'.writing = clipboard.writing - 1
  /\ clipboard'.nTimers = clipboard.nTimers

\* C40: while the hook is mounted, copied is true from a successful copy
\* until exactly resetDelayMs after the most recent successful copy and
\* false otherwise, at most one reset timer is pending (the one set by the
\* most recent successful copy), and a failed clipboard write changes
\* neither copied nor the pending timer.
C40_CopiedResetsAfterDelay ==
  [][/\ ClipboardConsistent'
     /\ ClipFailStep =>
          /\ clipboard'.copied = clipboard.copied
          /\ clipboard'.timers = clipboard.timers
          /\ clipboard'.timerRef = clipboard.timerRef]_vars

\* After rapid clicks and a failed write: the timer of an earlier copy was
\* cancelled, the time it was due has come, and copied is still true with
\* one timer pending, due resetDelayMs after the latest copy.
C40_Witness ==
  /\ clipboard.mounted
  /\ clipboard.copied
  /\ clipboard.cancelledDue # NoTime
  /\ clipboard.now >= clipboard.cancelledDue
  /\ clipboard.now < clipboard.copiedAt + ResetDelayMs
  /\ clipboard.copies > clipboard.nTimers + clipboard.writing
  /\ Cardinality(clipboard.timers) = 1

====
